---- MODULE Spec2Model ----
(***************************************************************************)
(* Node-side volume attach/detach and mount lifecycle of the Azure data    *)
(* disk plugin and its sibling providers.                                  *)
(*                                                                         *)
(*   provider   pkg/cloudprovider/providers/azure/azure_storage.go         *)
(*   attacher   pkg/volume/azure_dd/attacher.go (the last of the three     *)
(*              revisions the file holds, lines 397-675)                   *)
(*   mounter    pkg/volume/azure_dd/azure_dd.go                            *)
(*   cinder     pkg/volume/cinder/attacher.go                              *)
(*                                                                         *)
(* The instance's data-disk list is the only provider state: every         *)
(* provider call reads the whole virtual machine (getVirtualMachine) and a *)
(* mutating call writes the whole list back (CreateOrUpdate).  The read    *)
(* and the write of one call are separate steps of the model, so calls of  *)
(* different execution contexts interleave between them.                   *)
(***************************************************************************)
EXTENDS Integers, Sequences, FiniteSets, TLC

VARIABLES
    vmExists,   \* the compute instance exists on the provider side
    vmDisks,    \* vm.Properties.StorageProfile.DataDisks: the instance's disk list
    faults,     \* provider requests that have failed so far
    pc,         \* pc[c]: where context c stands in the call it runs
    op,         \* op[c]: the locals of the call context c runs
    res,        \* res[c]: what the last call context c completed returned and did
    ncalls,     \* calls started so far
    holders,    \* holders[k]: the contexts that hold key k of the KeyMutex
    podDir,     \* podDir[p]: the pod volume directory of pod p: absent, dir, mounted
    cinderAtt,  \* the volumes the Cinder cloud has attached to the instance
    ret,        \* the last provider call made on its own: its arguments and results
    wait,       \* wait[c]: locals and result of the WaitForAttach/WaitForDetach of c
    timer,      \* timer[c]: the time.Timer of the wait call of c: off, running, fired
    scsi,       \* the entries of /sys/bus/scsi/devices
    devs,       \* the device paths that exist under /dev
    ebsAtt,     \* the volumes the AWS cloud has attached to the instance
    globalDir,  \* the global mount path of the disk: absent, dir, mounted
    nFormat     \* FormatAndMount calls made so far

vars == <<vmExists, vmDisks, faults, pc, op, res, ncalls, holders, podDir, cinderAtt,
          ret, wait, timer, scsi, devs, ebsAtt, globalDir, nFormat>>

azureVars == <<vmExists, vmDisks, faults>>
lockVars  == <<holders, podDir, cinderAtt, ret>>
nodeVars  == <<wait, timer, scsi, devs>>
plugVars  == <<ebsAtt, globalDir, nFormat>>

---------------------------------------------------------------------------
(* Bounds of the model *)

MaxCalls == 2       \* calls started over one behaviour
MaxFaults == 1      \* provider requests that may fail over one behaviour
MaxLen == 3         \* entries of a disk list drawn as the input of a provider call
MaxEntries == 2     \* entries of /sys/bus/scsi/devices drawn as the input of a scan
MaxHosts == 3       \* hosts of the endpoints of a Glusterfs volume
maxRetries == 2     \* the maxRetries of the EBS attacher, defined outside these sources

(* Program constants *)

NumLuns == 64       \* used := make([]bool, 64)

Contexts  == {"c1", "c2"}
DiskNames == {"dA", "dB"}

---------------------------------------------------------------------------
(* Error values *)

Nil              == "nil"
InstanceNotFound == "InstanceNotFound"   \* cloudprovider.InstanceNotFound
VolumeNotFound   == "VolumeNotFound"     \* cloudprovider.VolumeNotFound
ProviderError    == "ProviderError"      \* any other error of a provider request
IndexPanic       == "IndexOutOfRange"    \* run-time panic of a slice index

---------------------------------------------------------------------------
(* Data disks.  lun is the *int32 of compute.DataDisk: <<>> is the nil     *)
(* pointer, <<l>> points to l.                                             *)

DataDisk(diskName, diskUri, lun) ==
    [name |-> diskName, uri |-> diskUri, lun |-> <<lun>>]

DataDiskURI(diskName) == "uri:" \o diskName

\* A disk of the instance that this node agent never attaches or detaches.
OtherDisk(lun) == DataDisk("o" \o ToString(lun), "uri:o" \o ToString(lun), lun)

OtherDisks(first, last) ==
    [i \in 1..(last - first + 1) |-> OtherDisk(first + i - 1)]

Min(S) == CHOOSE x \in S : \A y \in S : x <= y

RECURSIVE Itoa_Reversed(_)
\* An Itoa that writes the digits least significant first.
Itoa_Reversed(n) ==
    LET digit(d) == <<"0", "1", "2", "3", "4", "5", "6", "7", "8", "9">>[d + 1]
    IN  IF n < 10 THEN <<digit(n)>>
        ELSE <<digit(n % 10)>> \o Itoa_Reversed(n \div 10)

RECURSIVE Itoa(_)
\* strconv.Itoa: the base-10 digits of n, most significant first.
Itoa(n) ==
    LET digit(d) == <<"0", "1", "2", "3", "4", "5", "6", "7", "8", "9">>[d + 1]
    IN  IF n < 0 THEN <<"-">> \o Itoa(-n)
        ELSE IF n < 10 THEN <<digit(n)>>
        ELSE Itoa(n \div 10) \o <<digit(n % 10)>>

---------------------------------------------------------------------------
(* The provider: azure_storage.go *)

\* az.getVirtualMachine(vmName): (vm, exists, err).  failed: the request errs.
getVirtualMachine(failed) ==
    [err |-> IF failed THEN ProviderError ELSE Nil,
     exists |-> vmExists,
     disks |-> vmDisks]

\* The test with the name compared to the URI and the URI to the name.
MatchesDisk_Swapped(disk, diskName, diskUri) ==
    \/ diskName # "" /\ disk.uri = diskName
    \/ diskUri # "" /\ disk.name = diskUri

\* The name-or-URI test of GetDiskLun and DetachDiskByName.
MatchesDisk(disk, diskName, diskUri) ==
    \/ diskName # "" /\ disk.name = diskName
    \/ diskUri # "" /\ disk.uri = diskUri

\* Cloud.GetDiskLun: the LUN of the first entry with a LUN that matches.
GetDiskLun(vm, diskName, diskUri) ==
    IF vm.err # Nil THEN [lun |-> -1, err |-> vm.err]
    ELSE IF ~vm.exists THEN [lun |-> -1, err |-> InstanceNotFound]
    ELSE LET found == {i \in 1..Len(vm.disks) :
                          /\ vm.disks[i].lun # <<>>
                          /\ MatchesDisk(vm.disks[i], diskName, diskUri)}
         IN  IF found # {}
             THEN [lun |-> vm.disks[Min(found)].lun[1], err |-> Nil]
             ELSE [lun |-> -1, err |-> VolumeNotFound]

\* A used-slot map marked by the position of each disk, not by its LUN.
UsedLuns_ByIndex(disks) ==
    [k \in 0..(NumLuns - 1) |->
        \E i \in 1..Len(disks) : disks[i].lun # <<>> /\ i - 1 = k]

\* The used-slot map GetNextDiskLun builds from the list.
UsedLuns(disks) ==
    [k \in 0..(NumLuns - 1) |->
        \E i \in 1..Len(disks) : disks[i].lun # <<>> /\ disks[i].lun[1] = k]

\* A GetNextDiskLun that returns no error when every slot is used.
GetNextDiskLun_NoError(vm) ==
    IF vm.err # Nil THEN [lun |-> -1, err |-> vm.err]
    ELSE IF ~vm.exists THEN [lun |-> -1, err |-> InstanceNotFound]
    ELSE LET free == {k \in 0..(NumLuns - 1) : ~UsedLuns(vm.disks)[k]}
         IN  [lun |-> IF free # {} THEN Min(free) ELSE -1, err |-> Nil]

\* Cloud.GetNextDiskLun: the first slot of the map that is not used.
GetNextDiskLun(vm) ==
    IF vm.err # Nil THEN [lun |-> -1, err |-> vm.err]
    ELSE IF ~vm.exists THEN [lun |-> -1, err |-> InstanceNotFound]
    ELSE IF \E i \in 1..Len(vm.disks) :
                /\ vm.disks[i].lun # <<>>
                /\ vm.disks[i].lun[1] \notin 0..(NumLuns - 1)
         THEN [lun |-> -1, err |-> IndexPanic]
    ELSE LET used == UsedLuns(vm.disks)
             free == {k \in 0..(NumLuns - 1) : ~used[k]}
         IN  IF free # {}
             THEN [lun |-> Min(free), err |-> Nil]
             ELSE [lun |-> -1, err |-> VolumeNotFound]

\* Cloud.AttachDisk, the list it builds from the list read.
AttachDiskList(disks, diskName, diskUri, lun) ==
    Append(disks, DataDisk(diskName, diskUri, lun))

\* A DetachDiskByName that removes the last disk when none matches.
DetachDiskByNameList_DropLast(disks, diskName, diskUri) ==
    LET found == {i \in 1..Len(disks) : MatchesDisk(disks[i], diskName, diskUri)}
    IN  IF found = {} THEN SubSeq(disks, 1, Len(disks) - 1)
        ELSE SubSeq(disks, 1, Min(found) - 1)
                 \o SubSeq(disks, Min(found) + 1, Len(disks))

\* Cloud.DetachDiskByName, the list it builds: the first match removed.
DetachDiskByNameList(disks, diskName, diskUri) ==
    LET found == {i \in 1..Len(disks) : MatchesDisk(disks[i], diskName, diskUri)}
    IN  IF found = {} THEN disks
        ELSE SubSeq(disks, 1, Min(found) - 1)
                 \o SubSeq(disks, Min(found) + 1, Len(disks))

\* A DetachDiskByLun that removes every entry with the LUN.
DetachDiskByLunList_All(disks, lun) ==
    SelectSeq(disks, LAMBDA disk : ~(disk.lun # <<>> /\ disk.lun[1] = lun))

\* Cloud.DetachDiskByLun, the list it builds: the first entry with the LUN
\* removed (append(disks[:i], disks[i+1:]...) and break).
DetachDiskByLunList(disks, lun) ==
    LET found == {i \in 1..Len(disks) :
                     disks[i].lun # <<>> /\ disks[i].lun[1] = lun}
    IN  IF found = {} THEN disks
        ELSE SubSeq(disks, 1, Min(found) - 1)
                 \o SubSeq(disks, Min(found) + 1, Len(disks))

\* The zero value of compute.DataDisk: no name, no URI, no LUN.
ZeroDisk == [name |-> "", uri |-> "", lun |-> <<>>]

\* d := make([]compute.DataDisk, len(disks)): len(disks) zero values.
MakeDisks(n) == [i \in 1..n |-> ZeroDisk]

\* The filter-based DetachDiskByLun, AzureDataDisksOp DETACH and
\* UpdateVMDataDisks detach: d := make([]compute.DataDisk, len(disks)), then
\* every entry without the LUN is appended to d, and d is committed.
FilterDetachByLunList(disks, lun) ==
    MakeDisks(Len(disks))
        \o SelectSeq(disks, LAMBDA disk : ~(disk.lun # <<>> /\ disk.lun[1] = lun))

\* The filter-based DetachDiskByName: the same with the name-or-URI test.
FilterDetachByNameList(disks, diskName, diskUri) ==
    MakeDisks(Len(disks))
        \o SelectSeq(disks, LAMBDA disk : ~MatchesDisk(disk, diskName, diskUri))

\* az.VirtualMachinesClient.CreateOrUpdate: the error it returns.
CreateOrUpdateErr(failed) ==
    IF failed \/ ~vmExists THEN ProviderError ELSE Nil

\* The last provider call made on its own: none yet.
NoRet == [fn |-> "none", disk |-> "", lun |-> -1, err |-> "none", before |-> <<>>]

---------------------------------------------------------------------------
(* Execution contexts.  Each runs one call at a time; op[c] holds the      *)
(* call's arguments and locals, and what it did so far.                    *)

NoOp ==
    [kind |-> "none", disk |-> "", lun |-> -1, snap |-> <<>>,
     lookup |-> "none", nextErr |-> "none",
     nAttachDisk |-> 0, nWrite |-> 0, faulted |-> FALSE,
     notMnt |-> "none", nFormat |-> 0,
     nUnmount |-> 0, nRemove |-> 0, nDetach |-> 0, inner |-> "none",
     nRefs |-> -1, refs |-> <<>>,
     hosts |-> 0, start |-> -1, i |-> -1, tried |-> <<>>, spcTried |-> <<>>,
     nMount |-> 0, rollback |-> <<>>, before |-> <<>>]

NewOp(kind, diskName) == [NoOp EXCEPT !.kind = kind, !.disk = diskName]

\* The outcomes a provider request may have: it may fail while faults remain.
FaultChoices == IF faults < MaxFaults THEN {FALSE, TRUE} ELSE {FALSE}

Fault(failed) == faults' = faults + (IF failed THEN 1 ELSE 0)

\* What a call that ends with record o returned, and what it did.
Result(o, token, err) ==
    [kind |-> o.kind, disk |-> o.disk, token |-> token, err |-> err,
     lun |-> o.lun, lookup |-> o.lookup, nextErr |-> o.nextErr,
     nAttachDisk |-> o.nAttachDisk, nWrite |-> o.nWrite, faulted |-> o.faulted,
     notMnt |-> o.notMnt, nFormat |-> o.nFormat,
     nUnmount |-> o.nUnmount, nRemove |-> o.nRemove, nDetach |-> o.nDetach,
     inner |-> o.inner, nRefs |-> o.nRefs, refs |-> o.refs,
     hosts |-> o.hosts, start |-> o.start, i |-> o.i, tried |-> o.tried,
     spcTried |-> o.spcTried, nMount |-> o.nMount, rollback |-> o.rollback,
     before |-> o.before]

NoResult == Result(NoOp, <<>>, "none")

\* The call of context c returns (token, err); o is its final record.
Return(c, o, token, err) ==
    /\ pc' = [pc EXCEPT ![c] = "idle"]
    /\ op' = [op EXCEPT ![c] = NoOp]
    /\ res' = [res EXCEPT ![c] = Result(o, token, err)]

\* The call of context c goes on at `next` with record o.
Goto(c, o, next) ==
    /\ pc' = [pc EXCEPT ![c] = next]
    /\ op' = [op EXCEPT ![c] = o]
    /\ res' = res

---------------------------------------------------------------------------
(* azureDiskAttacher.Attach, attacher.go:442-490 *)

AttachFailed == "AttachFailed"   \* fmt.Errorf("Attach volume ... failed with ...")
NoLunFree    == "NoLunFree"      \* fmt.Errorf("all LUNs are used, cannot attach ...")

\* Attach is called for diskName.
StartAttach(c, diskName) ==
    /\ pc[c] = "idle"
    /\ ncalls < MaxCalls
    /\ ncalls' = ncalls + 1
    /\ Goto(c, [NewOp("Attach", diskName) EXCEPT !.before = vmDisks], "GetDiskLun")
    /\ UNCHANGED <<azureVars, lockVars, nodeVars, plugVars>>

\* lun, err := GetDiskLun(...): err == nil returns the LUN found as the token,
\* any error (InstanceNotFound is only logged) goes on to attach.
AttachGetDiskLun(c) ==
    /\ pc[c] = "GetDiskLun"
    /\ \E failed \in FaultChoices :
          LET r == GetDiskLun(getVirtualMachine(failed),
                              op[c].disk, DataDiskURI(op[c].disk))
              o == [op[c] EXCEPT !.lookup = r.err, !.lun = r.lun,
                                 !.faulted = @ \/ failed]
          IN  /\ Fault(failed)
              /\ UNCHANGED <<vmExists, vmDisks, ncalls, lockVars, nodeVars, plugVars>>
              /\ IF r.err = Nil
                 THEN Return(c, o, Itoa(r.lun), Nil)
                 ELSE Goto(c, o, "GetNextDiskLun")

\* lun, err = GetNextDiskLun(instanceid): an error returns "all LUNs are used".
AttachGetNextDiskLun(c) ==
    /\ pc[c] = "GetNextDiskLun"
    /\ \E failed \in FaultChoices :
          LET r == GetNextDiskLun(getVirtualMachine(failed))
              o == [op[c] EXCEPT !.nextErr = r.err, !.lun = r.lun,
                                 !.faulted = @ \/ failed]
          IN  /\ Fault(failed)
              /\ UNCHANGED <<vmExists, vmDisks, ncalls, lockVars, nodeVars, plugVars>>
              /\ IF r.err # Nil
                 THEN Return(c, o, <<>>, NoLunFree)
                 ELSE Goto(c, o, "AttachDisk")

\* AttachDisk(...) up to its CreateOrUpdate: it reads the instance and
\* appends the disk to the list read.
AttachDiskRead(c) ==
    /\ pc[c] = "AttachDisk"
    /\ \E failed \in FaultChoices :
          LET vm == getVirtualMachine(failed)
              o == [op[c] EXCEPT !.nAttachDisk = @ + 1, !.faulted = @ \/ failed]
          IN  /\ Fault(failed)
              /\ UNCHANGED <<vmExists, vmDisks, ncalls, lockVars, nodeVars, plugVars>>
              /\ IF vm.err # Nil \/ ~vm.exists
                 THEN Return(c, o, <<>>, AttachFailed)
                 ELSE Goto(c, [o EXCEPT !.snap =
                                  AttachDiskList(vm.disks, o.disk,
                                                 DataDiskURI(o.disk), o.lun)],
                           "AttachCommit")

\* An Attach that calls AttachDisk again when its CreateOrUpdate failed.
AttachDiskCommit_Retry(c) ==
    /\ pc[c] = "AttachCommit"
    /\ \E failed \in FaultChoices :
          LET err == CreateOrUpdateErr(failed)
              o == [op[c] EXCEPT !.faulted = @ \/ failed,
                                 !.nWrite = IF err = Nil THEN @ + 1 ELSE @]
          IN  /\ Fault(failed)
              /\ UNCHANGED <<vmExists, ncalls, lockVars, nodeVars, plugVars>>
              /\ vmDisks' = IF err = Nil THEN op[c].snap ELSE vmDisks
              /\ IF err = Nil
                 THEN Return(c, o, Itoa(o.lun), Nil)
                 ELSE Goto(c, o, "AttachDisk")

\* An AttachDisk whose CreateOrUpdate appends the disk to the list the
\* instance has at the write, not to the list read before.
AttachDiskCommit_Merge(c) ==
    /\ pc[c] = "AttachCommit"
    /\ \E failed \in FaultChoices :
          LET err == CreateOrUpdateErr(failed)
              o == [op[c] EXCEPT !.faulted = @ \/ failed,
                                 !.nWrite = IF err = Nil THEN @ + 1 ELSE @]
          IN  /\ Fault(failed)
              /\ UNCHANGED <<vmExists, ncalls, lockVars, nodeVars, plugVars>>
              /\ vmDisks' = IF err = Nil
                            THEN AttachDiskList(vmDisks, o.disk,
                                                DataDiskURI(o.disk), o.lun)
                            ELSE vmDisks
              /\ IF err = Nil
                 THEN Return(c, o, Itoa(o.lun), Nil)
                 ELSE Return(c, o, <<>>, AttachFailed)

\* AttachDisk's CreateOrUpdate commits the list built, and Attach returns
\* strconv.Itoa(int(lun)) or the failure.
AttachDiskCommit(c) ==
    /\ pc[c] = "AttachCommit"
    /\ \E failed \in FaultChoices :
          LET err == CreateOrUpdateErr(failed)
              o == [op[c] EXCEPT !.faulted = @ \/ failed,
                                 !.nWrite = IF err = Nil THEN @ + 1 ELSE @]
          IN  /\ Fault(failed)
              /\ UNCHANGED <<vmExists, ncalls, lockVars, nodeVars, plugVars>>
              /\ vmDisks' = IF err = Nil THEN op[c].snap ELSE vmDisks
              /\ IF err = Nil
                 THEN Return(c, o, Itoa(o.lun), Nil)
                 ELSE Return(c, o, <<>>, AttachFailed)

---------------------------------------------------------------------------
(* azureDiskDetacher.Detach, attacher.go:600-618 *)

\* Detach is called with the disk's name as dev.
StartDetach(c, diskName) ==
    /\ pc[c] = "idle"
    /\ ncalls < MaxCalls
    /\ ncalls' = ncalls + 1
    /\ Goto(c, [NewOp("Detach", diskName) EXCEPT !.before = vmDisks], "DetachDisk")
    /\ UNCHANGED <<azureVars, lockVars, nodeVars, plugVars>>

\* DetachDiskByName(dev, "", instanceid) up to its CreateOrUpdate.
DetachDiskRead(c) ==
    /\ pc[c] = "DetachDisk"
    /\ \E failed \in FaultChoices :
          LET vm == getVirtualMachine(failed)
              o == [op[c] EXCEPT !.faulted = @ \/ failed]
          IN  /\ Fault(failed)
              /\ UNCHANGED <<vmExists, vmDisks, ncalls, lockVars, nodeVars, plugVars>>
              /\ IF vm.err # Nil
                 THEN Return(c, o, <<>>, vm.err)
                 ELSE IF ~vm.exists
                 THEN Return(c, o, <<>>, InstanceNotFound)
                 ELSE Goto(c, [o EXCEPT !.snap =
                                  DetachDiskByNameList(vm.disks, o.disk, "")],
                           "DetachCommit")

\* DetachDiskByName's CreateOrUpdate commits the list built; Detach returns
\* its error.
DetachDiskCommit(c) ==
    /\ pc[c] = "DetachCommit"
    /\ \E failed \in FaultChoices :
          LET err == CreateOrUpdateErr(failed)
              o == [op[c] EXCEPT !.faulted = @ \/ failed,
                                 !.nWrite = IF err = Nil THEN @ + 1 ELSE @]
          IN  /\ Fault(failed)
              /\ UNCHANGED <<vmExists, ncalls, lockVars, nodeVars, plugVars>>
              /\ vmDisks' = IF err = Nil THEN op[c].snap ELSE vmDisks
              /\ Return(c, o, <<>>, err)

\* The compute instance is deleted on the provider side.
InstanceDeleted ==
    /\ vmExists
    /\ vmExists' = FALSE
    /\ UNCHANGED <<vmDisks, faults, pc, op, res, ncalls, lockVars, nodeVars, plugVars>>

---------------------------------------------------------------------------
(* keymutex.KeyMutex: a registry of mutexes, one per key.  The two         *)
(* registries of the program are the Azure plugin's volumeLocks and the    *)
(* Cinder attacher's attachDetachMutex.                                    *)

Mutexes == {"volumeLocks", "attachDetachMutex", "ebsAttachDetachMutex"}

\* The name of the volume in the pod's specification (azureDisk.volName).
VolName == "vol"

\* The keys the registries are asked for: disk names, and the volume name that
\* TearDownAt takes from a mount reference that is a pod's path.
Keys == DiskNames \cup {VolName}

\* A LockKey that does not wait for the holder of k.
LockKey_NoWait(c, m, k) ==
    holders' = [holders EXCEPT ![<<m, k>>] = @ \cup {c}]

\* A LockKey of a registry with one mutex for all its keys.
LockKey_Global(c, m, k) ==
    /\ \A j \in Keys : holders[<<m, j>>] = {}
    /\ holders' = [holders EXCEPT ![<<m, k>>] = @ \cup {c}]

\* LockKey(k) of registry m returns once no context holds k; the caller holds it.
LockKey(c, m, k) ==
    /\ holders[<<m, k>>] = {}
    /\ holders' = [holders EXCEPT ![<<m, k>>] = @ \cup {c}]

\* UnlockKey(k) of registry m releases the caller's hold of k.
\* An UnlockKey that leaves the key locked.
UnlockKey_Keep(c, m, k) ==
    holders' = holders

UnlockKey(c, m, k) ==
    holders' = [holders EXCEPT ![<<m, k>>] = @ \ {c}]

---------------------------------------------------------------------------
(* The node's file system as the mounter sees it.  A directory is          *)
(* [exists, mnt, dev, pdev]: mnt is the source mounted on it, <<>> when    *)
(* none is; dev is the st_dev os.Stat reports for it, pdev the st_dev of   *)
(* its parent directory.  A path is the sequence of its components.        *)

RootDev == "rootfs"   \* the device of the file system the plugin directories are on

NoDir    == [exists |-> FALSE, mnt |-> <<>>, dev |-> RootDev, pdev |-> RootDev]
PlainDir == [exists |-> TRUE, mnt |-> <<>>, dev |-> RootDev, pdev |-> RootDev]

NotExist  == "NotExist"    \* an error for which os.IsNotExist holds
StatError == "StatError"   \* any other error of os.Stat
MountError == "MountError" \* the error of a failed Mount or Unmount
MkdirError == "MkdirError" \* the error of a failed os.MkdirAll

\* makeGlobalPDPath: path.Join(host.GetPluginDir(...), "mounts", volume).
makeGlobalPDPath(volume) ==
    <<"plugins", "kubernetes.io/azure-disk", "mounts", volume>>

\* An IsLikelyNotMountPoint that takes every directory for no mount point.
IsLikelyNotMountPoint_Never(dir, failed) ==
    IF failed THEN [notMnt |-> TRUE, err |-> StatError]
    ELSE IF ~dir.exists THEN [notMnt |-> TRUE, err |-> NotExist]
    ELSE [notMnt |-> TRUE, err |-> Nil]

\* An IsLikelyNotMountPoint that answers "not a mount point", without an
\* error, for a file that does not exist.
IsLikelyNotMountPoint_NoError(dir, failed) ==
    IF failed THEN [notMnt |-> TRUE, err |-> StatError]
    ELSE IF ~dir.exists THEN [notMnt |-> TRUE, err |-> Nil]
    ELSE IF dir.dev # dir.pdev THEN [notMnt |-> FALSE, err |-> Nil]
    ELSE [notMnt |-> TRUE, err |-> Nil]

\* mounter.IsLikelyNotMountPoint(file): (notMnt, err).  failed: os.Stat errs
\* for another reason than the file not existing.  A directory whose device
\* differs from the device of its parent is a mount point.
IsLikelyNotMountPoint(dir, failed) ==
    IF failed THEN [notMnt |-> TRUE, err |-> StatError]
    ELSE IF ~dir.exists THEN [notMnt |-> TRUE, err |-> NotExist]
    ELSE IF dir.dev # dir.pdev THEN [notMnt |-> FALSE, err |-> Nil]
    ELSE [notMnt |-> TRUE, err |-> Nil]

\* mounter.Unmount(target): umount(8) of the target.  It fails when nothing is
\* mounted on the target or the target does not exist, and when umount fails
\* (the file system is busy); a failed Unmount leaves the mount.
Unmount(dir, failed) ==
    IF failed \/ dir.mnt = <<>>
    THEN [dir |-> dir, err |-> MountError]
    ELSE [dir |-> [dir EXCEPT !.mnt = <<>>, !.dev = dir.pdev], err |-> Nil]

\* A Remove that leaves the directory.
Remove_Nothing(dir) == dir

\* os.Remove(dir): removes a directory on which nothing is mounted.
Remove(dir) == IF dir.mnt = <<>> THEN NoDir ELSE dir

\* The rollback of SetUpAt after a failed Mount, azure_dd.go:218-240: the
\* directory it leaves.  A failed mount-point check or Unmount, and a
\* directory that is still mounted, leave the directory as it is; otherwise
\* os.Remove(dir) runs.
Rollback_KeepDir(dir, checkFails, unmountFails, recheckFails) ==
    IF dir.mnt = <<>> \/ unmountFails THEN dir ELSE Unmount(dir, FALSE).dir

Rollback(dir, checkFails, unmountFails, recheckFails) ==
    LET r1 == IsLikelyNotMountPoint(dir, checkFails)
        u  == Unmount(dir, unmountFails)
        r2 == IsLikelyNotMountPoint(u.dir, recheckFails)
    IN  IF r1.err # Nil THEN dir
        ELSE IF r1.notMnt THEN Remove(dir)
        ELSE IF u.err # Nil THEN u.dir
        ELSE IF r2.err # Nil THEN u.dir
        ELSE IF ~r2.notMnt THEN u.dir
        ELSE Remove(u.dir)

---------------------------------------------------------------------------
(* azureDiskMounter.SetUpAt, azure_dd.go:188-248.  Context c sets up the   *)
(* volume of its own pod: podDir[c] is the directory GetPath() names.      *)

\* SetUpAt returns err: the deferred UnlockKey(b.diskName) runs.
SetUpReturn(c, o, err) ==
    /\ UnlockKey(c, "volumeLocks", o.disk)
    /\ Return(c, o, <<>>, err)

\* SetUpAt is called for a pod that uses diskName.
StartSetUp(c, diskName) ==
    /\ pc[c] = "idle"
    /\ ncalls < MaxCalls
    /\ ncalls' = ncalls + 1
    /\ Goto(c, NewOp("SetUpAt", diskName), "SetUpLockKey")
    /\ UNCHANGED <<azureVars, lockVars, nodeVars, plugVars>>

\* b.plugin.volumeLocks.LockKey(b.diskName)
SetUpLockKey(c) ==
    /\ pc[c] = "SetUpLockKey"
    /\ LockKey(c, "volumeLocks", op[c].disk)
    /\ Goto(c, op[c], "SetUpCheck")
    /\ UNCHANGED <<azureVars, ncalls, podDir, cinderAtt, ret, nodeVars, plugVars>>

\* notMnt, err := IsLikelyNotMountPoint(dir): a hard error returns it, a
\* mount point returns nil, otherwise SetUpAt goes on.
SetUpCheck(c) ==
    /\ pc[c] = "SetUpCheck"
    /\ \E failed \in FaultChoices :
          LET r == IsLikelyNotMountPoint(podDir[c], failed)
              o == [op[c] EXCEPT !.faulted = @ \/ failed, !.lookup = r.err,
                                 !.notMnt = r.notMnt]
          IN  /\ Fault(failed)
              /\ UNCHANGED <<vmExists, vmDisks, ncalls, podDir, cinderAtt, ret, nodeVars, plugVars>>
              /\ IF r.err # Nil /\ r.err # NotExist
                 THEN SetUpReturn(c, o, r.err)
                 ELSE IF ~r.notMnt
                 THEN SetUpReturn(c, o, Nil)
                 ELSE Goto(c, o, "SetUpMkdirAll") /\ UNCHANGED holders

\* os.MkdirAll(dir, 0750): a failure returns it.
SetUpMkdirAll(c) ==
    /\ pc[c] = "SetUpMkdirAll"
    /\ \E failed \in FaultChoices :
          LET o == [op[c] EXCEPT !.faulted = @ \/ failed]
          IN  /\ Fault(failed)
              /\ UNCHANGED <<vmExists, vmDisks, ncalls, cinderAtt, ret, nodeVars, plugVars>>
              /\ IF failed
                 THEN SetUpReturn(c, o, MkdirError) /\ UNCHANGED podDir
                 ELSE /\ podDir' = [podDir EXCEPT ![c].exists = TRUE]
                      /\ Goto(c, o, "SetUpMount")
                      /\ UNCHANGED holders

\* What a Mount call may do: mount, fail, or fail and leave the mount.
MountOutcomes ==
    IF faults < MaxFaults THEN {"ok", "failed", "failedMounted"} ELSE {"ok"}

\* A Mount whose source does not exist: Mount fails, nothing is mounted, and
\* the rollback runs.
SetUpMountNoSource(c) ==
    /\ pc[c] = "SetUpMount"
    /\ ~globalDir[op[c].disk].exists
    /\ \E checkFails \in BOOLEAN :
          /\ podDir' = [podDir EXCEPT ![c] = Rollback(@, checkFails, FALSE, FALSE)]
          /\ SetUpReturn(c, [op[c] EXCEPT !.nMount = @ + 1,
                                          !.rollback = <<FALSE, checkFails, FALSE,
                                                       FALSE>>],
                         MountError)
    /\ UNCHANGED <<azureVars, ncalls, cinderAtt, ret, nodeVars, plugVars>>

\* err = b.mounter.Mount(globalPDPath, dir, "", options) and, when it fails,
\* the rollback; SetUpAt returns the error of the Mount.  A bind mount shows
\* the device of what is mounted on its source.  op.rollback records
\* whether the failed Mount left a mount, and which calls of the rollback
\* failed: the first mount-point check, the Unmount, the second check.
SetUpMount(c) ==
    /\ pc[c] = "SetUpMount"
    /\ \E m \in MountOutcomes, checkFails, unmountFails, recheckFails \in BOOLEAN :
          LET mounted == [podDir[c] EXCEPT !.mnt = makeGlobalPDPath(op[c].disk),
                                           !.dev = globalDir[op[c].disk].dev]
              left == IF m = "failed" THEN podDir[c] ELSE mounted
              o == [op[c] EXCEPT !.faulted = @ \/ (m # "ok"), !.nMount = @ + 1,
                                 !.rollback = IF m = "ok" THEN <<>>
                                              ELSE <<m = "failedMounted", checkFails,
                                                     unmountFails, recheckFails>>]
          IN  /\ Fault(m # "ok")
              /\ globalDir[o.disk].exists
              /\ UNCHANGED <<vmExists, vmDisks, ncalls, cinderAtt, ret, nodeVars, plugVars>>
              /\ m = "ok" => ~checkFails /\ ~unmountFails /\ ~recheckFails
              /\ (m = "failed" \/ checkFails) => ~unmountFails /\ ~recheckFails
              /\ unmountFails => ~recheckFails
              /\ podDir' = [podDir EXCEPT ![c] =
                               IF m = "ok" THEN mounted
                               ELSE Rollback(left, checkFails, unmountFails,
                                             recheckFails)]
              /\ SetUpReturn(c, o, IF m = "ok" THEN Nil ELSE MountError)

---------------------------------------------------------------------------
(* cinderDiskAttacher.Attach and cinderDiskDetacher.Detach,                *)
(* cinder/attacher.go:55-73 and 162-179.                                   *)

\* Attach is called for VolumeID.
StartCinderAttach(c, VolumeID) ==
    /\ pc[c] = "idle"
    /\ ncalls < MaxCalls
    /\ ncalls' = ncalls + 1
    /\ Goto(c, NewOp("CinderAttach", VolumeID), "CinderAttachLockKey")
    /\ UNCHANGED <<azureVars, lockVars, nodeVars, plugVars>>

\* attachDetachMutex.LockKey(VolumeID)
CinderAttachLockKey(c) ==
    /\ pc[c] = "CinderAttachLockKey"
    /\ LockKey(c, "attachDetachMutex", op[c].disk)
    /\ Goto(c, op[c], "CinderAttachDisk")
    /\ UNCHANGED <<azureVars, ncalls, podDir, cinderAtt, ret, nodeVars, plugVars>>

\* getCloudProvider, InstanceID and cloud.AttachDisk(instanceid, VolumeID):
\* Attach returns the first error; the deferred UnlockKey runs.
CinderAttachDisk(c) ==
    /\ pc[c] = "CinderAttachDisk"
    /\ \E failed \in FaultChoices :
          LET o == [op[c] EXCEPT !.faulted = @ \/ failed]
          IN  /\ Fault(failed)
              /\ UNCHANGED <<vmExists, vmDisks, ncalls, podDir, ret, nodeVars, plugVars>>
              /\ cinderAtt' = IF failed THEN cinderAtt
                              ELSE cinderAtt \cup {o.disk}
              /\ UnlockKey(c, "attachDetachMutex", o.disk)
              /\ Return(c, o, <<>>, IF failed THEN ProviderError ELSE Nil)

\* Detach is called with the global mount path of VolumeID.
StartCinderDetach(c, VolumeID) ==
    /\ pc[c] = "idle"
    /\ ncalls < MaxCalls
    /\ ncalls' = ncalls + 1
    /\ Goto(c, NewOp("CinderDetach", VolumeID), "CinderDetachLockKey")
    /\ UNCHANGED <<azureVars, lockVars, nodeVars, plugVars>>

\* attachDetachMutex.LockKey(VolumeID)
CinderDetachLockKey(c) ==
    /\ pc[c] = "CinderDetachLockKey"
    /\ LockKey(c, "attachDetachMutex", op[c].disk)
    /\ Goto(c, op[c], "CinderDetachDisk")
    /\ UNCHANGED <<azureVars, ncalls, podDir, cinderAtt, ret, nodeVars, plugVars>>

\* getCloudProvider and cloud.DetachDisk(VolumeID, hostName): Detach returns
\* the first error; the deferred UnlockKey runs.
CinderDetachDisk(c) ==
    /\ pc[c] = "CinderDetachDisk"
    /\ \E failed \in FaultChoices :
          LET o == [op[c] EXCEPT !.faulted = @ \/ failed]
          IN  /\ Fault(failed)
              /\ UNCHANGED <<vmExists, vmDisks, ncalls, podDir, ret, nodeVars, plugVars>>
              /\ cinderAtt' = IF failed THEN cinderAtt
                              ELSE cinderAtt \ {o.disk}
              /\ UnlockKey(c, "attachDetachMutex", o.disk)
              /\ Return(c, o, <<>>, IF failed THEN ProviderError ELSE Nil)

---------------------------------------------------------------------------
(* awsElasticBlockStoreAttacher.Attach, vhd_util.go:196-223 *)

\* Attach is called for VolumeID.
StartEbsAttach(c, VolumeID) ==
    /\ pc[c] = "idle"
    /\ ncalls < MaxCalls
    /\ ncalls' = ncalls + 1
    /\ Goto(c, NewOp("EbsAttach", VolumeID), "EbsAttachLockKey")
    /\ UNCHANGED <<azureVars, lockVars, nodeVars, plugVars>>

\* attachDetachMutex.LockKey(VolumeID)
EbsAttachLockKey(c) ==
    /\ pc[c] = "EbsAttachLockKey"
    /\ LockKey(c, "ebsAttachDetachMutex", op[c].disk)
    /\ Goto(c, op[c], "EbsAttachDisk")
    /\ UNCHANGED <<azureVars, ncalls, podDir, cinderAtt, ret, nodeVars, plugVars>>

\* One turn of the loop "for numRetries := 0; numRetries < maxRetries;
\* numRetries++": awsCloud.AttachDisk succeeds and Attach returns nil, or it
\* fails and the loop goes on; after the last turn Attach returns the error.
\* numRetries is the number of AttachDisk calls made so far.
EbsAttachDisk(c) ==
    /\ pc[c] = "EbsAttachDisk"
    /\ \E failed \in FaultChoices :
          LET o == [op[c] EXCEPT !.nAttachDisk = @ + 1, !.faulted = @ \/ failed]
          IN  /\ Fault(failed)
              /\ UNCHANGED <<vmExists, vmDisks, ncalls, podDir, cinderAtt, ret,
                             nodeVars, globalDir, nFormat>>
              /\ IF ~failed
                 THEN /\ ebsAtt' = ebsAtt \cup {o.disk}
                      /\ UnlockKey(c, "ebsAttachDetachMutex", o.disk)
                      /\ Return(c, o, <<>>, Nil)
                 ELSE IF o.nAttachDisk < maxRetries
                 THEN /\ Goto(c, o, "EbsAttachDisk")
                      /\ UNCHANGED <<ebsAtt, holders>>
                 ELSE /\ UnlockKey(c, "ebsAttachDetachMutex", o.disk)
                      /\ Return(c, o, <<>>, ProviderError)
                      /\ UNCHANGED ebsAtt

---------------------------------------------------------------------------
(* azureDiskAttacher.MountDevice, attacher.go:546-579.  globalDir[d] is    *)
(* the directory makeGlobalPDPath names for disk d.                        *)

\* The directory with the device mounted on it.
MountedDir(devicePath) ==
    [exists |-> TRUE, mnt |-> <<devicePath>>, dev |-> devicePath, pdev |-> RootDev]

\* MountDevice is called for the disk with the device path WaitForAttach gave.
StartMountDevice(c, diskName, devicePath) ==
    /\ pc[c] = "idle"
    /\ ncalls < MaxCalls
    /\ ncalls' = ncalls + 1
    /\ Goto(c, [NewOp("MountDevice", diskName) EXCEPT !.snap = <<devicePath>>],
            "MountDeviceCheck")
    /\ UNCHANGED <<azureVars, lockVars, nodeVars, plugVars>>

\* notMnt, err := mounter.IsLikelyNotMountPoint(deviceMountPath): an error
\* other than not-exist returns it; a mount point returns nil.
MountDeviceCheck(c) ==
    /\ pc[c] = "MountDeviceCheck"
    /\ \E failed \in FaultChoices :
          LET r == IsLikelyNotMountPoint(globalDir[op[c].disk], failed)
              o == [op[c] EXCEPT !.faulted = @ \/ failed, !.lookup = r.err,
                                 !.notMnt = r.notMnt]
          IN  /\ Fault(failed)
              /\ UNCHANGED <<vmExists, vmDisks, ncalls, lockVars, nodeVars, plugVars>>
              /\ IF r.err = NotExist
                 THEN Goto(c, o, "MountDeviceMkdirAll")
                 ELSE IF r.err # Nil
                 THEN Return(c, o, <<>>, r.err)
                 ELSE IF r.notMnt
                 THEN Goto(c, o, "MountDeviceFormat")
                 ELSE Return(c, o, <<>>, Nil)

\* os.MkdirAll(deviceMountPath, 0750); notMnt = true
MountDeviceMkdirAll(c) ==
    /\ pc[c] = "MountDeviceMkdirAll"
    /\ \E failed \in FaultChoices :
          LET o == [op[c] EXCEPT !.faulted = @ \/ failed, !.notMnt = TRUE]
          IN  /\ Fault(failed)
              /\ UNCHANGED <<vmExists, vmDisks, ncalls, lockVars, nodeVars,
                             ebsAtt, nFormat>>
              /\ IF failed
                 THEN Return(c, o, <<>>, MkdirError) /\ UNCHANGED globalDir
                 ELSE /\ globalDir' = [globalDir EXCEPT ![o.disk].exists = TRUE]
                      /\ Goto(c, o, "MountDeviceFormat")

\* err = diskMounter.FormatAndMount(...); on an error os.Remove(deviceMountPath)
\* and the error is returned.
MountDeviceFormat(c) ==
    /\ pc[c] = "MountDeviceFormat"
    /\ \E m \in MountOutcomes :
          LET o == [op[c] EXCEPT !.faulted = @ \/ (m # "ok"), !.nFormat = @ + 1]
              dir == globalDir[o.disk]
              mounted == MountedDir(o.snap[1])
          IN  /\ Fault(m # "ok")
              /\ UNCHANGED <<vmExists, vmDisks, ncalls, lockVars, nodeVars, ebsAtt>>
              /\ nFormat' = nFormat + 1
              /\ globalDir' = [globalDir EXCEPT ![o.disk] =
                                  IF m = "ok" THEN mounted
                                  ELSE IF m = "failedMounted" THEN Remove(mounted)
                                  ELSE Remove(dir)]
              /\ Return(c, o, <<>>, IF m = "ok" THEN Nil ELSE MountError)

---------------------------------------------------------------------------
(* strconv.Atoi *)

Digits == <<"0", "1", "2", "3", "4", "5", "6", "7", "8", "9">>

IsDigit(ch) == \E i \in 1..10 : Digits[i] = ch

DigitValue(ch) == (CHOOSE i \in 1..10 : Digits[i] = ch) - 1

RECURSIVE ParseDigits(_)
ParseDigits(s) ==
    IF s = <<>> THEN 0
    ELSE 10 * ParseDigits(SubSeq(s, 1, Len(s) - 1)) + DigitValue(s[Len(s)])

\* strconv.Atoi(s): an optional sign and one or more decimal digits.
Atoi(s) ==
    LET signed == s # <<>> /\ s[1] \in {"+", "-"}
        digits == IF signed THEN Tail(s) ELSE s
    IN  IF digits = <<>> \/ \E i \in 1..Len(digits) : ~IsDigit(digits[i])
        THEN [val |-> 0, err |-> "SyntaxError"]
        ELSE [val |-> IF signed /\ s[1] = "-" THEN 0 - ParseDigits(digits)
                      ELSE ParseDigits(digits),
              err |-> Nil]

---------------------------------------------------------------------------
(* The node: SCSI devices under sysfs and device paths under /dev *)

\* Text is a sequence of one-character strings.
Msft        == <<"M", "S", "F", "T">>
VirtualDisk == <<"V", "I", "R", "T", "U", "A", "L", " ", "D", "I", "S", "K">>
NewLine     == <<"\n">>
Spaces(n)   == [i \in 1..n |-> " "]

LowerCase == <<"a", "b", "c", "d", "e", "f", "g", "h", "i", "j", "k", "l", "m",
               "n", "o", "p", "q", "r", "s", "t", "u", "v", "w", "x", "y", "z">>
UpperCase == <<"A", "B", "C", "D", "E", "F", "G", "H", "I", "J", "K", "L", "M",
               "N", "O", "P", "Q", "R", "S", "T", "U", "V", "W", "X", "Y", "Z">>

\* strings.ToUpper
ToUpper(s) ==
    [i \in 1..Len(s) |->
        IF s[i] \in {LowerCase[k] : k \in 1..26}
        THEN UpperCase[CHOOSE k \in 1..26 : LowerCase[k] = s[i]]
        ELSE s[i]]

\* strings.Split(s, sep) with a separator of one character: the parts of s
\* between its start, the places of sep and its end.
Split(s, sep) ==
    LET cuts == {0} \cup {j \in 1..Len(s) : s[j] = sep} \cup {Len(s) + 1}
        cut(k) == CHOOSE x \in cuts : Cardinality({y \in cuts : y < x}) = k - 1
    IN  [k \in 1..(Cardinality(cuts) - 1) |->
            SubSeq(s, cut(k) + 1, cut(k + 1) - 1)]

\* regexp.MatchString("^MSFT[ ]{0,}\nVIRTUAL DISK[ ]{0,}\n$", out): out is
\* "MSFT", spaces, a newline, "VIRTUAL DISK", spaces and a newline.
MatchString(out) ==
    out \in {Msft \o Spaces(i) \o NewLine \o VirtualDisk \o Spaces(j) \o NewLine :
                i \in 0..Len(out), j \in 0..Len(out)}

\* The name "host:0:lun:0" of an entry of /sys/bus/scsi/devices.
ScsiName(host, lun) == Itoa(host) \o <<":", "0", ":">> \o Itoa(lun) \o <<":", "0">>

\* An entry of /sys/bus/scsi/devices: its name, the contents of its vendor
\* and model files, the name of the first child of its block directory, and
\* whether reading that directory fails.  vhd: the files read as those of a
\* VHD, "MSFT" and "Virtual Disk" padded with spaces and ended by a newline.
ScsiEntry(host, lun, vhd, block) ==
    [name |-> ScsiName(host, lun),
     vendor |-> IF vhd THEN Msft \o Spaces(4) \o NewLine
                ELSE <<"A", "T", "A">> \o Spaces(5) \o NewLine,
     model |-> IF vhd
               THEN <<"V", "i", "r", "t", "u", "a", "l", " ", "D", "i", "s", "k">>
                    \o Spaces(4) \o NewLine
               ELSE <<"C", "D", "R", "O", "M">> \o NewLine,
     block |-> block,
     blockErr |-> FALSE]

\* The resource disk every instance has, and the data disk the model attaches.
ResourceDisk == ScsiEntry(1, 1, TRUE, "sdb")
DataDevice   == ScsiEntry(3, 1, TRUE, "sdc")

\* The device path under which the node sees disk d once it is attached.
DiskDevice(d) == IF d = "dA" THEN "/dev/sdc" ELSE "/dev/sdd"

\* The order of two characters in a file name.
CharOrder == <<"0", "1", "2", "3", "4", "5", "6", "7", "8", "9", ":">>
             \o UpperCase \o LowerCase

CharRank(ch) == CHOOSE k \in 1..Len(CharOrder) : CharOrder[k] = ch

\* Whether file name a sorts before file name b: at the first place where
\* they differ a has the lower character, or a is a proper prefix of b.
NameBefore(a, b) ==
    LET differ == {i \in 1..Len(a) : i > Len(b) \/ a[i] # b[i]}
    IN  IF differ = {} THEN Len(a) < Len(b)
        ELSE /\ Min(differ) <= Len(b)
             /\ CharRank(a[Min(differ)]) < CharRank(b[Min(differ)])

\* io.ReadDir(sys_path): the entries of the directory, sorted by file name.
ReadDir(entries) ==
    CHOOSE dirs \in [1..Cardinality(entries) -> entries] :
        \A i, j \in 1..Cardinality(entries) :
            i < j => NameBefore(dirs[i].name, dirs[j].name)

\* findDiskByLun of azure_util.go:334-367: it compares the vendor file, read
\* whole and upper-cased, with "MSFT", and then the vendor again with
\* "VIRTUAL DISK".  (\E x \in {e} names the value of e.)
findDiskByLunReadFile(lun, dirs) ==
    LET found(f) ==
            \E arr \in {Split(f.name, ":")}, vendor \in {ToUpper(f.vendor)} :
                /\ Len(arr) >= 4
                /\ Atoi(arr[1]).err = Nil /\ Atoi(arr[1]).val > 2
                /\ Atoi(arr[3]).err = Nil /\ Atoi(arr[3]).val = lun
                /\ vendor = Msft
                /\ vendor = VirtualDisk
                /\ ~f.blockErr
        device(listing) ==
            LET hits == {i \in 1..Len(listing) : \E f \in {listing[i]} : found(f)}
            IN  IF hits = {} THEN "" ELSE "/dev/" \o listing[Min(hits)].block
    IN  CHOOSE devicePath \in {device(listing) : listing \in {dirs}} : TRUE

\* findDiskByLun of vhd_util.go:48-85: the device of the first entry, in the
\* order of the listing, whose name has four parts or more, a target above 2
\* and the LUN asked for, whose vendor and model as cat prints them match the
\* pattern once upper-cased, and whose block directory can be read; ""
\* when there is none.
findDiskByLun(lun, dirs) ==
    LET found(f) ==
            \E arr \in {Split(f.name, ":")}, out \in {ToUpper(f.vendor \o f.model)} :
                /\ Len(arr) >= 4
                /\ Atoi(arr[1]).err = Nil /\ Atoi(arr[1]).val > 2
                /\ Atoi(arr[3]).err = Nil /\ Atoi(arr[3]).val = lun
                /\ MatchString(out)
                /\ ~f.blockErr
        device(listing) ==
            LET hits == {i \in 1..Len(listing) : \E f \in {listing[i]} : found(f)}
            IN  IF hits = {} THEN "" ELSE "/dev/" \o listing[Min(hits)].block
    IN  CHOOSE devicePath \in {device(listing) : listing \in {dirs}} : TRUE

\* A pathExists with the result of the stat inverted.
pathExists_Negated(path, failed) ==
    IF failed THEN [exists |-> FALSE, err |-> StatError]
    ELSE [exists |-> path \notin devs, err |-> Nil]

\* pathExists: os.Stat of the path; a stat error other than not-exist is an
\* error of pathExists.
pathExists(path, failed) ==
    IF failed THEN [exists |-> FALSE, err |-> StatError]
    ELSE [exists |-> path \in devs, err |-> Nil]

\* The kernel lists the attached disk; udev creates or removes its device path.
ScsiAppears ==
    /\ DataDevice \notin scsi
    /\ scsi' = scsi \cup {DataDevice}
    /\ UNCHANGED <<azureVars, pc, op, res, ncalls, lockVars, plugVars, wait, timer, devs>>

ScsiRemoved ==
    /\ DataDevice \in scsi
    /\ scsi' = scsi \ {DataDevice}
    /\ UNCHANGED <<azureVars, pc, op, res, ncalls, lockVars, plugVars, wait, timer, devs>>

NodeCreated ==
    /\ DataDevice \in scsi
    /\ "/dev/" \o DataDevice.block \notin devs
    /\ devs' = devs \cup {"/dev/" \o DataDevice.block}
    /\ UNCHANGED <<azureVars, pc, op, res, ncalls, lockVars, plugVars, wait, timer, scsi>>

NodeRemoved ==
    /\ "/dev/" \o DataDevice.block \in devs
    /\ devs' = devs \ {"/dev/" \o DataDevice.block}
    /\ UNCHANGED <<azureVars, pc, op, res, ncalls, lockVars, plugVars, wait, timer, scsi>>

---------------------------------------------------------------------------
(* azureDiskAttacher.WaitForAttach, attacher.go:492-532 *)

DevicePathEmpty  == "DevicePathEmpty"   \* "WaitForAttach failed ...: devicePath is empty."
WrongLun         == "WrongLun"          \* "WaitForAttach: wrong lun %q"
CannotFindDevice == "CannotFindDevice"  \* "cannot find device for lun %q"
AttachTimeout    == "AttachTimeout"     \* "Could not find attached Azure disk ... Timeout ..."
DetachTimeout    == "DetachTimeout"     \* "Timeout reached; Device %v is still attached"

NoWait ==
    [kind |-> "none", dev |-> <<>>, lun |-> -1, path |-> "",
     nScan |-> 0, started |-> FALSE, fired |-> FALSE,
     seen |-> "none", out |-> "", err |-> "none"]

\* The wait call of context c returns (out, err); w is its final record.
\* The deferred ticker.Stop() and timer.Stop() run.
WaitReturn(c, w, out, err) ==
    /\ pc' = [pc EXCEPT ![c] = "idle"]
    /\ wait' = [wait EXCEPT ![c] = [w EXCEPT !.out = out, !.err = err,
                                              !.fired = timer[c] = "fired"]]
    /\ timer' = [timer EXCEPT ![c] = "off"]

\* The tokens WaitForAttach is called with: the token of the Attach that
\* context c completed last, the empty token, a token that is no number, and
\* the LUN of the data disk.
WaitTokens(c) ==
    {<<>>, <<"x">>, <<"1">>}
        \cup (IF res[c].kind = "Attach" THEN {res[c].token} ELSE {})

StartWaitForAttach(c, dev) ==
    /\ pc[c] = "idle"
    /\ ncalls < MaxCalls
    /\ ncalls' = ncalls + 1
    /\ pc' = [pc EXCEPT ![c] = "WaitForAttach"]
    /\ wait' = [wait EXCEPT ![c] = [NoWait EXCEPT !.kind = "WaitForAttach",
                                                   !.dev = dev]]
    /\ UNCHANGED <<azureVars, op, res, lockVars, plugVars, timer, scsi, devs>>

\* A WaitForAttach without the check of an empty dev.
WaitForAttachFind_NoEmptyCheck(c) ==
    /\ pc[c] = "WaitForAttach"
    /\ LET w == wait[c]
           a == IF w.dev = <<>> THEN [val |-> 0, err |-> Nil] ELSE Atoi(w.dev)
           devicePath == findDiskByLun(a.val, ReadDir(scsi))
       IN  IF a.err # Nil
           THEN WaitReturn(c, w, "", WrongLun)
           ELSE IF devicePath = ""
           THEN WaitReturn(c, [w EXCEPT !.lun = a.val, !.nScan = @ + 1],
                           "", CannotFindDevice)
           ELSE /\ pc' = [pc EXCEPT ![c] = "WaitForAttachLoop"]
                /\ wait' = [wait EXCEPT ![c] =
                              [w EXCEPT !.lun = a.val, !.nScan = @ + 1,
                                        !.path = devicePath, !.started = TRUE]]
                /\ timer' = [timer EXCEPT ![c] = "running"]
    /\ UNCHANGED <<azureVars, op, res, ncalls, lockVars, plugVars, scsi, devs>>

\* The checks of dev, strconv.Atoi(dev), and the one findDiskByLun scan made
\* before the ticker and the timer are created.
WaitForAttachFind(c) ==
    /\ pc[c] = "WaitForAttach"
    /\ LET w == wait[c]
           a == Atoi(w.dev)
           devicePath == findDiskByLun(a.val, ReadDir(scsi))
       IN  IF w.dev = <<>>
           THEN WaitReturn(c, w, "", DevicePathEmpty)
           ELSE IF a.err # Nil
           THEN WaitReturn(c, w, "", WrongLun)
           ELSE IF devicePath = ""
           THEN WaitReturn(c, [w EXCEPT !.lun = a.val, !.nScan = @ + 1],
                           "", CannotFindDevice)
           ELSE /\ pc' = [pc EXCEPT ![c] = "WaitForAttachLoop"]
                /\ wait' = [wait EXCEPT ![c] =
                              [w EXCEPT !.lun = a.val, !.nScan = @ + 1,
                                        !.path = devicePath, !.started = TRUE]]
                /\ timer' = [timer EXCEPT ![c] = "running"]
    /\ UNCHANGED <<azureVars, op, res, ncalls, lockVars, plugVars, scsi, devs>>

\* case <-ticker.C: pathExists(devicePath); found returns the path, anything
\* else is logged and the loop goes on.
WaitForAttachTick(c) ==
    /\ pc[c] = "WaitForAttachLoop"
    /\ \E failed \in FaultChoices :
          LET r == pathExists(wait[c].path, failed)
              w == [wait[c] EXCEPT !.seen = IF r.err # Nil THEN r.err
                                            ELSE IF r.exists THEN "exists"
                                            ELSE "gone"]
          IN  /\ Fault(failed)
              /\ IF r.exists /\ r.err = Nil
                 THEN WaitReturn(c, w, w.path, Nil)
                 ELSE /\ wait' = [wait EXCEPT ![c] = w]
                      /\ UNCHANGED <<pc, timer>>
    /\ UNCHANGED <<vmExists, vmDisks, op, res, ncalls, lockVars, plugVars, scsi, devs>>

\* case <-timer.C
WaitForAttachTimeout(c) ==
    /\ pc[c] = "WaitForAttachLoop"
    /\ timer[c] = "fired"
    /\ WaitReturn(c, wait[c], "", AttachTimeout)
    /\ UNCHANGED <<azureVars, op, res, ncalls, lockVars, plugVars, scsi, devs>>

\* The timeout of the time.Timer of context c elapses.
TimerFires(c) ==
    /\ timer[c] = "running"
    /\ timer' = [timer EXCEPT ![c] = "fired"]
    /\ UNCHANGED <<azureVars, pc, op, res, ncalls, lockVars, plugVars, wait, scsi, devs>>

---------------------------------------------------------------------------
(* azureDiskDetacher.WaitForDetach, attacher.go:620-640 *)

\* WaitForDetach is called with devicePath; it creates its ticker and timer.
StartWaitForDetach(c, devicePath) ==
    /\ pc[c] = "idle"
    /\ ncalls < MaxCalls
    /\ ncalls' = ncalls + 1
    /\ pc' = [pc EXCEPT ![c] = "WaitForDetachLoop"]
    /\ wait' = [wait EXCEPT ![c] = [NoWait EXCEPT !.kind = "WaitForDetach",
                                                   !.path = devicePath,
                                                   !.started = TRUE]]
    /\ timer' = [timer EXCEPT ![c] = "running"]
    /\ UNCHANGED <<azureVars, op, res, lockVars, plugVars, scsi, devs>>

\* case <-ticker.C: an error of pathExists is returned, a path that does not
\* exist returns nil, a path that exists goes on.
WaitForDetachTick(c) ==
    /\ pc[c] = "WaitForDetachLoop"
    /\ \E failed \in FaultChoices :
          LET r == pathExists(wait[c].path, failed)
              w == [wait[c] EXCEPT !.seen = IF r.err # Nil THEN r.err
                                            ELSE IF r.exists THEN "exists"
                                            ELSE "gone"]
          IN  /\ Fault(failed)
              /\ IF r.err # Nil
                 THEN WaitReturn(c, w, "", r.err)
                 ELSE IF ~r.exists
                 THEN WaitReturn(c, w, "", Nil)
                 ELSE /\ wait' = [wait EXCEPT ![c] = w]
                      /\ UNCHANGED <<pc, timer>>
    /\ UNCHANGED <<vmExists, vmDisks, op, res, ncalls, lockVars, plugVars, scsi, devs>>

\* A timer case that leaves the select and not the loop.
WaitForDetachTimeout_BreakOnly(c) ==
    /\ pc[c] = "WaitForDetachLoop"
    /\ timer[c] = "fired"
    /\ timer' = [timer EXCEPT ![c] = "off"]
    /\ UNCHANGED <<azureVars, pc, op, res, ncalls, lockVars, plugVars, wait, scsi, devs>>

\* case <-timer.C
WaitForDetachTimeout(c) ==
    /\ pc[c] = "WaitForDetachLoop"
    /\ timer[c] = "fired"
    /\ WaitReturn(c, wait[c], "", DetachTimeout)
    /\ UNCHANGED <<azureVars, op, res, ncalls, lockVars, plugVars, scsi, devs>>

\* Nothing waits and no device is attached.
NodeIdle ==
    /\ wait = [c \in Contexts |-> NoWait]
    /\ timer = [c \in Contexts |-> "off"]
    /\ scsi = {ResourceDisk}
    /\ devs = {"/dev/" \o ResourceDisk.block}
    /\ ebsAtt = {}
    /\ globalDir = [d \in DiskNames |-> NoDir]
    /\ nFormat = 0

---------------------------------------------------------------------------
(* azureDiskDetacher.UnmountDevice and unmountPDAndRemoveGlobalPath,       *)
(* attacher.go:642-650 and 665-675.                                        *)

\* pathExists of a directory: os.Stat of the path.
pathExistsDir(dir, failed) ==
    IF failed THEN [exists |-> FALSE, err |-> StatError]
    ELSE [exists |-> dir.exists, err |-> Nil]

\* UnmountDevice is called with the global mount path of diskName.
StartUnmountDevice(c, diskName) ==
    /\ pc[c] = "idle"
    /\ ncalls < MaxCalls
    /\ ncalls' = ncalls + 1
    /\ Goto(c, NewOp("UnmountDevice", diskName), "UnmountDevicePathExists")
    /\ UNCHANGED <<azureVars, lockVars, nodeVars, plugVars>>

\* unmountPDAndRemoveGlobalPath: pathExists(globalMountPath).  An error of the
\* stat is returned to UnmountDevice, a path that does not exist returns nil;
\* UnmountDevice logs the error and returns nil itself.
UnmountDevicePathExists(c) ==
    /\ pc[c] = "UnmountDevicePathExists"
    /\ \E failed \in FaultChoices :
          LET r == pathExistsDir(globalDir[op[c].disk], failed)
              o == [op[c] EXCEPT !.faulted = @ \/ failed, !.inner = r.err]
          IN  /\ Fault(failed)
              /\ UNCHANGED <<vmExists, vmDisks, ncalls, lockVars, nodeVars, plugVars>>
              /\ IF r.err # Nil \/ ~r.exists
                 THEN Return(c, o, <<>>, Nil)
                 ELSE Goto(c, o, "UnmountDeviceUnmount")

\* err := mounter.Unmount(globalMountPath); os.Remove(globalMountPath);
\* return err.  UnmountDevice logs the error and returns nil.
UnmountDeviceUnmount(c) ==
    /\ pc[c] = "UnmountDeviceUnmount"
    /\ \E failed \in FaultChoices :
          LET u == Unmount(globalDir[op[c].disk], failed)
              o == [op[c] EXCEPT !.faulted = @ \/ failed, !.inner = u.err,
                                 !.nUnmount = @ + 1, !.nRemove = @ + 1]
          IN  /\ Fault(failed)
              /\ UNCHANGED <<vmExists, vmDisks, ncalls, lockVars, nodeVars,
                             ebsAtt, nFormat>>
              /\ globalDir' = [globalDir EXCEPT ![o.disk] = Remove(u.dir)]
              /\ Return(c, o, <<>>, Nil)

---------------------------------------------------------------------------
(* cinderDiskDetacher.UnmountDevice and unmountPDAndRemoveGlobalPath,      *)
(* cinder/attacher.go:202-209 and 238-243.                                 *)

\* UnmountDevice is called with the global mount path of VolumeID.
StartCinderUnmountDevice(c, VolumeID) ==
    /\ pc[c] = "idle"
    /\ ncalls < MaxCalls
    /\ ncalls' = ncalls + 1
    /\ Goto(c, NewOp("CinderUnmountDevice", VolumeID), "CinderUnmountDeviceUnmount")
    /\ UNCHANGED <<azureVars, lockVars, nodeVars, plugVars>>

\* err := mounter.Unmount(globalMountPath); os.Remove(globalMountPath);
\* return err, with no check of the path.  UnmountDevice logs the error and
\* returns nil.
CinderUnmountDeviceUnmount(c) ==
    /\ pc[c] = "CinderUnmountDeviceUnmount"
    /\ \E failed \in FaultChoices :
          LET u == Unmount(globalDir[op[c].disk], failed)
              o == [op[c] EXCEPT !.faulted = @ \/ failed, !.inner = u.err,
                                 !.nUnmount = @ + 1, !.nRemove = @ + 1]
          IN  /\ Fault(failed)
              /\ UNCHANGED <<vmExists, vmDisks, ncalls, lockVars, nodeVars,
                             ebsAtt, nFormat>>
              /\ globalDir' = [globalDir EXCEPT ![o.disk] = Remove(u.dir)]
              /\ Return(c, o, <<>>, Nil)

---------------------------------------------------------------------------
(* The mount table, mount.GetMountRefs and azureDiskUnmounter.TearDownAt,  *)
(* azure_dd.go:273-322.  Context c tears down the volume of its own pod.   *)

NotMounted == "NotMounted"   \* fmt.Errorf("%s is not mounted", dir)
ListError  == "ListError"    \* the error of a failed read of the mount table

\* GetPath(): host.GetPodVolumeDir(podUID, "kubernetes.io~azure-disk", volName)
PodPath(c) == <<"pods", c, "volumes", "kubernetes.io~azure-disk", VolName>>

\* path.Base(path): the last component.
Base(path) == path[Len(path)]

DiskSeq    == <<"dA", "dB">>
ContextSeq == <<"c1", "c2">>

\* mounter.List(): the mount table, an entry [device, path] per mount, in
\* the order the mounts were made: the mount of a disk on its global path
\* precedes the bind mounts made from it.
MountTable ==
    LET g == SelectSeq(DiskSeq, LAMBDA d : globalDir[d].mnt # <<>>)
        p == SelectSeq(ContextSeq, LAMBDA c : podDir[c].mnt # <<>>)
    IN  [i \in 1..Len(g) |->
            [device |-> globalDir[g[i]].dev, path |-> makeGlobalPDPath(g[i])]]
        \o [i \in 1..Len(p) |->
            [device |-> podDir[p[i]].dev, path |-> PodPath(p[i])]]

\* mount.GetMountRefs(mounter, mountPath): the paths of the other mounts of
\* the device that is mounted on mountPath, in the order of the mount table.
GetMountRefs(mps, mountPath) ==
    LET own == SelectSeq(mps, LAMBDA m : m.path = mountPath)
        deviceName == IF own = <<>> THEN "" ELSE own[1].device
        others == SelectSeq(mps, LAMBDA m : m.device = deviceName
                                             /\ m.path # mountPath)
    IN  [i \in 1..Len(others) |-> others[i].path]

\* A diskName taken from what the process remembers of its last SetUpAt.
TearDownDiskName_Remembered(c, refs) ==
    IF res[c].kind = "SetUpAt" THEN res[c].disk ELSE Base(refs[1])

\* c.diskName = path.Base(refs[0]), for the unmounter of context c.
TearDownDiskName(c, refs) == Base(refs[1])

\* TearDownAt returns err after its LockKey: the deferred UnlockKey runs.
TearDownReturn(c, o, err) ==
    /\ UnlockKey(c, "volumeLocks", o.disk)
    /\ Return(c, o, <<>>, err)

\* TearDownAt is called for the pod of context c, by an unmounter that
\* newUnmounterInternal made: its diskName is not set.
StartTearDown(c) ==
    /\ pc[c] = "idle"
    /\ ncalls < MaxCalls
    /\ ncalls' = ncalls + 1
    /\ Goto(c, NewOp("TearDownAt", ""), "TearDownCheck")
    /\ UNCHANGED <<azureVars, lockVars, nodeVars, plugVars>>

\* notMnt, err := IsLikelyNotMountPoint(dir): an error returns it; a
\* directory that is no mount point is removed and the result of os.Remove
\* is returned.
TearDownCheck(c) ==
    /\ pc[c] = "TearDownCheck"
    /\ \E failed \in FaultChoices :
          LET r == IsLikelyNotMountPoint(podDir[c], failed)
              o == [op[c] EXCEPT !.faulted = @ \/ failed, !.lookup = r.err,
                                 !.notMnt = r.notMnt]
          IN  /\ Fault(failed)
              /\ UNCHANGED <<vmExists, vmDisks, ncalls, holders, cinderAtt, ret,
                             nodeVars, plugVars>>
              /\ IF r.err # Nil
                 THEN Return(c, o, <<>>, r.err) /\ UNCHANGED podDir
                 ELSE IF r.notMnt
                 THEN /\ podDir' = [podDir EXCEPT ![c] = Remove(@)]
                      /\ Return(c, [o EXCEPT !.nRemove = @ + 1], <<>>, Nil)
                 ELSE Goto(c, o, "TearDownGetMountRefs") /\ UNCHANGED podDir

\* refs, err := mount.GetMountRefs(c.mounter, dir): an error returns it, no
\* reference returns "is not mounted"; c.diskName = path.Base(refs[0]).
TearDownGetMountRefs(c) ==
    /\ pc[c] = "TearDownGetMountRefs"
    /\ \E failed \in FaultChoices :
          LET refs == GetMountRefs(MountTable, PodPath(c))
              o == [op[c] EXCEPT !.faulted = @ \/ failed, !.snap = refs,
                                 !.nRefs = Len(refs)]
          IN  /\ Fault(failed)
              /\ UNCHANGED <<vmExists, vmDisks, ncalls, lockVars, nodeVars, plugVars>>
              /\ IF failed
                 THEN Return(c, [op[c] EXCEPT !.faulted = TRUE], <<>>, ListError)
                 ELSE IF Len(refs) = 0
                 THEN Return(c, o, <<>>, NotMounted)
                 ELSE Goto(c, [o EXCEPT !.disk = TearDownDiskName(c, refs)],
                           "TearDownLockKey")

\* c.plugin.volumeLocks.LockKey(c.diskName)
TearDownLockKey(c) ==
    /\ pc[c] = "TearDownLockKey"
    /\ LockKey(c, "volumeLocks", op[c].disk)
    /\ Goto(c, op[c], "TearDownReload")
    /\ UNCHANGED <<azureVars, ncalls, podDir, cinderAtt, ret, nodeVars, plugVars>>

\* refs, err = mount.GetMountRefs(c.mounter, dir), read again under the lock:
\* an error returns it.
TearDownReload(c) ==
    /\ pc[c] = "TearDownReload"
    /\ \E failed \in FaultChoices :
          LET refs == GetMountRefs(MountTable, PodPath(c))
              o == [op[c] EXCEPT !.faulted = @ \/ failed,
                                 !.refs = IF failed THEN <<>> ELSE refs]
          IN  /\ Fault(failed)
              /\ UNCHANGED <<vmExists, vmDisks, ncalls, podDir, cinderAtt, ret,
                             nodeVars, plugVars>>
              /\ IF failed
                 THEN TearDownReturn(c, o, ListError)
                 ELSE Goto(c, o, "TearDownUnmount") /\ UNCHANGED holders

\* c.mounter.Unmount(dir): an error returns it.
TearDownUnmount(c) ==
    /\ pc[c] = "TearDownUnmount"
    /\ \E failed \in FaultChoices :
          LET u == Unmount(podDir[c], failed)
              o == [op[c] EXCEPT !.faulted = @ \/ failed, !.nUnmount = @ + 1]
          IN  /\ Fault(failed)
              /\ UNCHANGED <<vmExists, vmDisks, ncalls, cinderAtt, ret,
                             nodeVars, plugVars>>
              /\ podDir' = [podDir EXCEPT ![c] = u.dir]
              /\ IF u.err # Nil
                 THEN TearDownReturn(c, o, u.err)
                 ELSE Goto(c, o, "TearDownRemove") /\ UNCHANGED holders

\* notMnt, mntErr := IsLikelyNotMountPoint(dir).  With an mntErr TearDownAt
\* returns err, the nil of the second GetMountRefs; a directory that is no
\* mount point is removed.  TearDownAt returns nil: it makes no Detach call.
TearDownRemove(c) ==
    /\ pc[c] = "TearDownRemove"
    /\ \E failed \in FaultChoices :
          LET r == IsLikelyNotMountPoint(podDir[c], failed)
              o == [op[c] EXCEPT !.faulted = @ \/ failed, !.inner = r.err]
          IN  /\ Fault(failed)
              /\ UNCHANGED <<vmExists, vmDisks, ncalls, cinderAtt, ret,
                             nodeVars, plugVars>>
              /\ IF r.err # Nil
                 THEN TearDownReturn(c, o, Nil) /\ UNCHANGED podDir
                 ELSE IF r.notMnt
                 THEN /\ podDir' = [podDir EXCEPT ![c] = Remove(@)]
                      /\ TearDownReturn(c, [o EXCEPT !.nRemove = @ + 1], Nil)
                 ELSE TearDownReturn(c, o, Nil) /\ UNCHANGED podDir

---------------------------------------------------------------------------
(* iscsiDisk.SetUp and iscsiDisk.TearDown, iscsi_pd.go:160-239.  Context c *)
(* sets up and tears down the volume of its own pod; no lock is taken.     *)
(* gce_pd.IsMountPoint and gce_pd.GetMountRefCount are not among the       *)
(* sources: they are the mount-point test and the reference count of the   *)
(* specification.                                                          *)

ExecError == "ExecError"   \* the error of a failed iscsiadm

\* The pod directory with the global path of disk d bind-mounted on it.
BoundDir(d) ==
    [exists |-> TRUE, mnt |-> makeGlobalPDPath(d), dev |-> DiskDevice(d),
     pdev |-> RootDev]

\* gce_pd.IsMountPoint(file): (mountpoint, err), the opposite answer of
\* IsLikelyNotMountPoint.
IsMountPoint(dir, failed) ==
    LET r == IsLikelyNotMountPoint(dir, failed)
    IN  [mountpoint |-> r.err = Nil /\ ~r.notMnt, err |-> r.err]

\* gce_pd.GetMountRefCount(mounter, mountPath): the device mounted on
\* mountPath and the number of mounts of that device, mountPath's included.
GetMountRefCount(mps, mountPath) ==
    LET own == SelectSeq(mps, LAMBDA m : m.path = mountPath)
        deviceName == IF own = <<>> THEN "" ELSE own[1].device
    IN  [devicePath |-> deviceName,
         refCount |-> Len(SelectSeq(mps, LAMBDA m : m.device = deviceName))]

\* NewBuilder and SetUp are called for a pod that uses disk d.
StartIscsiSetUp(c, d) ==
    /\ pc[c] = "idle"
    /\ ncalls < MaxCalls
    /\ ncalls' = ncalls + 1
    /\ Goto(c, NewOp("IscsiSetUp", d), "IscsiSetUpCheck")
    /\ UNCHANGED <<azureVars, lockVars, nodeVars, plugVars>>

\* mountpoint, err := gce_pd.IsMountPoint(iscsi.GetPath()): an error other
\* than not-exist returns it, a mount point returns nil.
IscsiSetUpCheck(c) ==
    /\ pc[c] = "IscsiSetUpCheck"
    /\ \E failed \in FaultChoices :
          LET r == IsMountPoint(podDir[c], failed)
              o == [op[c] EXCEPT !.faulted = @ \/ failed, !.lookup = r.err,
                                 !.notMnt = ~r.mountpoint]
          IN  /\ Fault(failed)
              /\ UNCHANGED <<vmExists, vmDisks, ncalls, lockVars, nodeVars, plugVars>>
              /\ IF r.err # Nil /\ r.err # NotExist
                 THEN Return(c, o, <<>>, r.err)
                 ELSE IF r.mountpoint
                 THEN Return(c, o, <<>>, Nil)
                 ELSE Goto(c, o, "IscsiSetUpAttachDisk")

\* iscsi.manager.AttachDisk(iscsi): iscsiadm logs in to the target, the
\* device of the disk appears; an error returns it.
IscsiSetUpAttachDisk(c) ==
    /\ pc[c] = "IscsiSetUpAttachDisk"
    /\ \E failed \in FaultChoices :
          LET o == [op[c] EXCEPT !.faulted = @ \/ failed, !.nAttachDisk = @ + 1]
          IN  /\ Fault(failed)
              /\ UNCHANGED <<vmExists, vmDisks, ncalls, lockVars, plugVars,
                             wait, timer, scsi>>
              /\ IF failed
                 THEN Return(c, o, <<>>, ExecError) /\ UNCHANGED devs
                 ELSE /\ devs' = devs \cup {DiskDevice(o.disk)}
                      /\ Goto(c, o, "IscsiSetUpMkdirAll")

\* os.MkdirAll(volPath, 0750): an error returns it.
IscsiSetUpMkdirAll(c) ==
    /\ pc[c] = "IscsiSetUpMkdirAll"
    /\ \E failed \in FaultChoices :
          LET o == [op[c] EXCEPT !.faulted = @ \/ failed]
          IN  /\ Fault(failed)
              /\ UNCHANGED <<vmExists, vmDisks, ncalls, holders, cinderAtt, ret,
                             nodeVars, plugVars>>
              /\ IF failed
                 THEN Return(c, o, <<>>, MkdirError) /\ UNCHANGED podDir
                 ELSE /\ podDir' = [podDir EXCEPT ![c].exists = TRUE]
                      /\ Goto(c, o, "IscsiSetUpMount")

\* iscsi.mounter.Mount(globalPDPath, iscsi.GetPath(), "", mount.FlagBind|flags,
\* ""): an error returns it; the remount that follows changes no mount.
IscsiSetUpMount(c) ==
    /\ pc[c] = "IscsiSetUpMount"
    /\ \E failed \in FaultChoices :
          LET o == [op[c] EXCEPT !.faulted = @ \/ failed, !.nMount = @ + 1]
          IN  /\ Fault(failed)
              /\ UNCHANGED <<vmExists, vmDisks, ncalls, holders, cinderAtt, ret,
                             nodeVars, plugVars>>
              /\ IF failed
                 THEN Return(c, o, <<>>, MountError) /\ UNCHANGED podDir
                 ELSE /\ podDir' = [podDir EXCEPT ![c] = BoundDir(o.disk)]
                      /\ Return(c, o, <<>>, Nil)

\* NewCleaner and TearDown are called for the pod of context c.
StartIscsiTearDown(c) ==
    /\ pc[c] = "idle"
    /\ ncalls < MaxCalls
    /\ ncalls' = ncalls + 1
    /\ Goto(c, NewOp("IscsiTearDown", ""), "IscsiTearDownCheck")
    /\ UNCHANGED <<azureVars, lockVars, nodeVars, plugVars>>

\* mountpoint, err := gce_pd.IsMountPoint(iscsi.GetPath()): an error returns
\* it, a path that is no mount point returns nil.
IscsiTearDownCheck(c) ==
    /\ pc[c] = "IscsiTearDownCheck"
    /\ \E failed \in FaultChoices :
          LET r == IsMountPoint(podDir[c], failed)
              o == [op[c] EXCEPT !.faulted = @ \/ failed, !.lookup = r.err,
                                 !.notMnt = ~r.mountpoint]
          IN  /\ Fault(failed)
              /\ UNCHANGED <<vmExists, vmDisks, ncalls, lockVars, nodeVars, plugVars>>
              /\ IF r.err # Nil
                 THEN Return(c, o, <<>>, r.err)
                 ELSE IF ~r.mountpoint
                 THEN Return(c, o, <<>>, Nil)
                 ELSE Goto(c, o, "IscsiTearDownRefCount")

\* devicePath, refCount, err := gce_pd.GetMountRefCount(iscsi.mounter,
\* iscsi.GetPath()): an error returns it.
IscsiTearDownRefCount(c) ==
    /\ pc[c] = "IscsiTearDownRefCount"
    /\ \E failed \in FaultChoices :
          LET r == GetMountRefCount(MountTable, PodPath(c))
              o == [op[c] EXCEPT !.faulted = @ \/ failed]
          IN  /\ Fault(failed)
              /\ UNCHANGED <<vmExists, vmDisks, ncalls, lockVars, nodeVars, plugVars>>
              /\ IF failed
                 THEN Return(c, o, <<>>, ListError)
                 ELSE Goto(c, [o EXCEPT !.snap = <<r.devicePath>>,
                                         !.nRefs = r.refCount],
                           "IscsiTearDownUnmount")

\* iscsi.mounter.Unmount(iscsi.GetPath(), 0): an error returns it; refCount--
IscsiTearDownUnmount(c) ==
    /\ pc[c] = "IscsiTearDownUnmount"
    /\ \E failed \in FaultChoices :
          LET u == Unmount(podDir[c], failed)
              o == [op[c] EXCEPT !.faulted = @ \/ failed, !.nUnmount = @ + 1]
          IN  /\ Fault(failed)
              /\ UNCHANGED <<vmExists, vmDisks, ncalls, holders, cinderAtt, ret,
                             nodeVars, plugVars>>
              /\ podDir' = [podDir EXCEPT ![c] = u.dir]
              /\ IF u.err # Nil
                 THEN Return(c, o, <<>>, u.err)
                 ELSE Goto(c, [o EXCEPT !.nRefs = @ - 1], "IscsiTearDownDetach")

\* if refCount == 1 { iscsi.manager.DetachDisk(iscsi, devicePath) }; return
\* nil.  ISCSIDiskUtil.DetachDisk returns nil and does nothing else.
IscsiTearDownDetach(c) ==
    /\ pc[c] = "IscsiTearDownDetach"
    /\ LET o == [op[c] EXCEPT !.nDetach = IF op[c].nRefs = 1 THEN @ + 1 ELSE @]
       IN  Return(c, o, <<>>, Nil)
    /\ UNCHANGED <<azureVars, ncalls, lockVars, nodeVars, plugVars>>

---------------------------------------------------------------------------
(* glusterfsBuilder.setUpAtInternal, glusterfs.go:234-278.  Context c      *)
(* mounts the volume on podDir[c], which SetUpAt has created.  hosts is    *)
(* len(b.hosts.Subsets), start the host picked, i the loop variable,       *)
(* tried the hosts mounter.Mount was called with and what came of it,      *)
(* spcTried the same for the mounts run in the sidecar container.          *)

\* The pod directory with the Glusterfs volume of host h mounted on it.
GlusterDir(h) ==
    [exists |-> TRUE, mnt |-> <<"glusterfs", h>>, dev |-> "glusterfs",
     pdev |-> RootDev]

\* l := len(b.hosts.Subsets); start := rand.Int() % l, for an endpoints
\* object with a host or more.
StartGlusterSetUp(c, l, start) ==
    /\ pc[c] = "idle"
    /\ ncalls < MaxCalls
    /\ ncalls' = ncalls + 1
    /\ Goto(c, [NewOp("GlusterSetUp", "") EXCEPT !.hosts = l, !.start = start,
                                                  !.i = start],
            "GlusterMount")
    /\ UNCHANGED <<azureVars, lockVars, nodeVars, plugVars>>

\* A pass that gives up at the first host whose mount fails.
GlusterMount_FailFast(c) ==
    /\ pc[c] = "GlusterMount"
    /\ \E ok \in BOOLEAN :
          LET h == op[c].i % op[c].hosts
              o == [op[c] EXCEPT !.tried = Append(@, [host |-> h, ok |-> ok]),
                                 !.i = @ + 1]
          IN  /\ UNCHANGED <<azureVars, ncalls, holders, cinderAtt, ret,
                             nodeVars, plugVars>>
              /\ IF ok
                 THEN /\ podDir' = [podDir EXCEPT ![c] = GlusterDir(h)]
                      /\ Return(c, o, <<>>, Nil)
                 ELSE /\ UNCHANGED podDir
                      /\ Return(c, o, <<>>, MountError)

\* One turn of "for i := start; i < start+l; i++": mounter.Mount of host
\* Subsets[i%l]; a mount that succeeds returns nil, after the last host the
\* containerized mount is tried.
GlusterMount(c) ==
    /\ pc[c] = "GlusterMount"
    /\ \E ok \in BOOLEAN :
          LET h == op[c].i % op[c].hosts
              o == [op[c] EXCEPT !.tried = Append(@, [host |-> h, ok |-> ok]),
                                 !.i = @ + 1]
          IN  /\ UNCHANGED <<azureVars, ncalls, holders, cinderAtt, ret,
                             nodeVars, plugVars>>
              /\ IF ok
                 THEN /\ podDir' = [podDir EXCEPT ![c] = GlusterDir(h)]
                      /\ Return(c, o, <<>>, Nil)
                 ELSE /\ UNCHANGED podDir
                      /\ IF o.i < o.start + o.hosts
                         THEN Goto(c, o, "GlusterMount")
                         ELSE Goto(c, o, "GlusterSidecar")

\* pod, err := b.plugin.createSidecarContainer("fs_client"): without a pod
\* the error of the last mount is returned; with one the hosts are gone
\* through again from start.
GlusterSidecar(c) ==
    /\ pc[c] = "GlusterSidecar"
    /\ \E created \in BOOLEAN :
          IF created
          THEN Goto(c, [op[c] EXCEPT !.i = op[c].start], "GlusterContainerMount")
          ELSE Return(c, op[c], <<>>, MountError)
    /\ UNCHANGED <<azureVars, ncalls, lockVars, nodeVars, plugVars>>

\* One turn of the second loop: the mount command is run in the container
\* and IsLikelyNotMountPoint(dir) tells whether it mounted; after the last
\* host the error of the last mounter.Mount is returned.
GlusterContainerMount(c) ==
    /\ pc[c] = "GlusterContainerMount"
    /\ \E ok \in BOOLEAN, failed \in BOOLEAN :
          LET h == op[c].i % op[c].hosts
              dir == IF ok THEN GlusterDir(h) ELSE podDir[c]
              r == IsLikelyNotMountPoint(dir, failed)
              o == [op[c] EXCEPT !.spcTried = Append(@, [host |-> h, ok |-> ok]),
                                 !.i = @ + 1]
          IN  /\ UNCHANGED <<azureVars, ncalls, holders, cinderAtt, ret,
                             nodeVars, plugVars>>
              /\ podDir' = [podDir EXCEPT ![c] = dir]
              /\ IF r.err = Nil /\ ~r.notMnt
                 THEN Return(c, o, <<>>, Nil)
                 ELSE IF o.i < o.start + o.hosts
                 THEN Goto(c, o, "GlusterContainerMount")
                 ELSE Return(c, o, <<>>, MountError)

---------------------------------------------------------------------------
(* Initial states *)

\* The disk lists an instance may hold before this node agent acts on it:
\* the disks at LUNs {0, 2, 5}, one free LUN, and every LUN in use.
InitDiskLists ==
    { <<OtherDisk(0), OtherDisk(2), OtherDisk(5)>>,
      OtherDisks(0, NumLuns - 2),
      OtherDisks(0, NumLuns - 1) }

Init ==
    /\ vmExists \in BOOLEAN
    /\ vmDisks \in InitDiskLists
    /\ faults = 0
    /\ pc = [c \in Contexts |-> "idle"]
    /\ op = [c \in Contexts |-> NoOp]
    /\ res = [c \in Contexts |-> NoResult]
    /\ ncalls = 0
    /\ holders = [k \in Mutexes \X Keys |-> {}]
    /\ podDir = [c \in Contexts |-> NoDir]
    /\ cinderAtt = {}
    /\ ret = NoRet
    /\ NodeIdle

AzureStep(c) ==
    \/ \E d \in DiskNames : StartAttach(c, d)
    \/ AttachGetDiskLun(c)
    \/ AttachGetNextDiskLun(c)
    \/ AttachDiskRead(c)
    \/ AttachDiskCommit(c)
    \/ \E d \in DiskNames : StartDetach(c, d)
    \/ DetachDiskRead(c)
    \/ DetachDiskCommit(c)

Next ==
    \/ \E c \in Contexts : AzureStep(c)
    \/ InstanceDeleted

Spec == Init /\ [][Next]_vars

---------------------------------------------------------------------------
(* The keyed-lock users: SetUpAt of the Azure mounter, Attach and Detach   *)
(* of the Cinder attacher.  The disks are attached and mounted on their    *)
(* global paths, as they are when SetUpAt is called.                       *)

InitLock ==
    /\ vmExists = TRUE
    /\ vmDisks = <<>>
    /\ faults = 0
    /\ pc = [c \in Contexts |-> "idle"]
    /\ op = [c \in Contexts |-> NoOp]
    /\ res = [c \in Contexts |-> NoResult]
    /\ ncalls = 0
    /\ holders = [k \in Mutexes \X Keys |-> {}]
    /\ podDir \in [Contexts -> {NoDir, PlainDir}]
    /\ cinderAtt \in SUBSET DiskNames
    /\ ret = NoRet
    /\ wait = [c \in Contexts |-> NoWait]
    /\ timer = [c \in Contexts |-> "off"]
    /\ scsi = {ResourceDisk}
    /\ devs = {"/dev/" \o ResourceDisk.block} \cup {DiskDevice(d) : d \in DiskNames}
    /\ ebsAtt = {}
    /\ globalDir = [d \in DiskNames |-> MountedDir(DiskDevice(d))]
    /\ nFormat = 0

LockStep(c) ==
    \/ \E d \in DiskNames : StartSetUp(c, d)
    \/ SetUpLockKey(c)
    \/ SetUpCheck(c)
    \/ SetUpMkdirAll(c)
    \/ SetUpMount(c)
    \/ \E d \in DiskNames : StartCinderAttach(c, d)
    \/ CinderAttachLockKey(c)
    \/ CinderAttachDisk(c)
    \/ \E d \in DiskNames : StartCinderDetach(c, d)
    \/ CinderDetachLockKey(c)
    \/ CinderDetachDisk(c)

NextLock == \E c \in Contexts : LockStep(c)

SpecLock == InitLock /\ [][NextLock]_vars

---------------------------------------------------------------------------
(* One context alone: its calls follow one another, none overlaps.         *)

NextSeq == AzureStep("c1") \/ InstanceDeleted

SpecSeq == Init /\ [][NextSeq]_vars

---------------------------------------------------------------------------
(* One context on the node: Attach, then the waits for the device, while   *)
(* the kernel and udev add and remove the device.                          *)

WaitStep(c) ==
    \/ \E dev \in WaitTokens(c) : StartWaitForAttach(c, dev)
    \/ WaitForAttachFind(c)
    \/ WaitForAttachTick(c)
    \/ WaitForAttachTimeout(c)
    \/ StartWaitForDetach(c, "/dev/" \o DataDevice.block)
    \/ WaitForDetachTick(c)
    \/ WaitForDetachTimeout(c)
    \/ TimerFires(c)

AttachStep(c) ==
    \/ \E d \in DiskNames : StartAttach(c, d)
    \/ AttachGetDiskLun(c)
    \/ AttachGetNextDiskLun(c)
    \/ AttachDiskRead(c)
    \/ AttachDiskCommit(c)

NextNode ==
    \/ AttachStep("c1")
    \/ WaitStep("c1")
    \/ ScsiAppears \/ ScsiRemoved \/ NodeCreated \/ NodeRemoved

SpecNode == Init /\ [][NextNode]_vars

\* The timer of a wait fires once its timeout has elapsed, and a select with
\* a fired timer takes the timer's case in the end.
SpecNodeFair ==
    /\ SpecNode
    /\ WF_vars(WaitForAttachFind("c1"))
    /\ WF_vars(TimerFires("c1"))
    /\ WF_vars(WaitForAttachTimeout("c1"))
    /\ WF_vars(WaitForDetachTimeout("c1"))

---------------------------------------------------------------------------
(* The attachers: Attach of the Azure and of the EBS attacher, by two      *)
(* contexts.                                                               *)

EbsStep(c) ==
    \/ \E v \in DiskNames : StartEbsAttach(c, v)
    \/ EbsAttachLockKey(c)
    \/ EbsAttachDisk(c)

NextAttach == \E c \in Contexts : AttachStep(c) \/ EbsStep(c)

SpecAttach == Init /\ [][NextAttach]_vars

---------------------------------------------------------------------------
(* MountDevice calls that follow one another, on global paths that are     *)
(* absent, plain directories or mount points.                              *)

InitMount ==
    /\ vmExists = TRUE
    /\ vmDisks = <<>>
    /\ faults = 0
    /\ pc = [c \in Contexts |-> "idle"]
    /\ op = [c \in Contexts |-> NoOp]
    /\ res = [c \in Contexts |-> NoResult]
    /\ ncalls = 0
    /\ holders = [k \in Mutexes \X Keys |-> {}]
    /\ podDir = [c \in Contexts |-> NoDir]
    /\ cinderAtt = {}
    /\ ret = NoRet
    /\ wait = [c \in Contexts |-> NoWait]
    /\ timer = [c \in Contexts |-> "off"]
    /\ scsi = {ResourceDisk, DataDevice}
    /\ devs = {"/dev/" \o ResourceDisk.block, "/dev/" \o DataDevice.block}
    /\ ebsAtt = {}
    /\ globalDir \in [DiskNames ->
                         {NoDir, PlainDir, MountedDir("/dev/" \o DataDevice.block)}]
    /\ nFormat = 0

MountStep(c) ==
    \/ \E d \in DiskNames : StartMountDevice(c, d, "/dev/" \o DataDevice.block)
    \/ MountDeviceCheck(c)
    \/ MountDeviceMkdirAll(c)
    \/ MountDeviceFormat(c)

NextMount == MountStep("c1")

SpecMount == InitMount /\ [][NextMount]_vars

---------------------------------------------------------------------------
(* MountDevice and UnmountDevice calls that follow one another, on global  *)
(* paths that are absent, plain directories or mount points.               *)

UnmountStep(c) ==
    \/ \E d \in DiskNames : StartUnmountDevice(c, d)
    \/ UnmountDevicePathExists(c)
    \/ UnmountDeviceUnmount(c)
    \/ \E d \in DiskNames : StartCinderUnmountDevice(c, d)
    \/ CinderUnmountDeviceUnmount(c)

NextUnmount == MountStep("c1") \/ UnmountStep("c1")

SpecUnmount == InitMount /\ [][NextUnmount]_vars

---------------------------------------------------------------------------
(* The pods of two contexts: SetUpAt and TearDownAt on pod directories     *)
(* that are absent, plain or bind-mounted from the global path of a disk.  *)
(* The disks are attached; the global path of a disk is mounted, or was    *)
(* unmounted and removed by UnmountDevice.                                 *)

InitTear ==
    /\ vmExists = TRUE
    /\ vmDisks = <<>>
    /\ faults = 0
    /\ pc = [c \in Contexts |-> "idle"]
    /\ op = [c \in Contexts |-> NoOp]
    /\ res = [c \in Contexts |-> NoResult]
    /\ ncalls = 0
    /\ holders = [k \in Mutexes \X Keys |-> {}]
    /\ podDir \in [Contexts -> {NoDir, PlainDir, BoundDir("dA")}]
    /\ cinderAtt = {}
    /\ ret = NoRet
    /\ wait = [c \in Contexts |-> NoWait]
    /\ timer = [c \in Contexts |-> "off"]
    /\ scsi = {ResourceDisk, DataDevice}
    /\ devs = {"/dev/" \o ResourceDisk.block} \cup {DiskDevice(d) : d \in DiskNames}
    /\ ebsAtt = {}
    /\ globalDir \in {g \in [DiskNames -> {NoDir} \cup {MountedDir(DiskDevice(d)) :
                                                        d \in DiskNames}] :
                         \A d \in DiskNames : g[d] \in {NoDir, MountedDir(DiskDevice(d))}}
    /\ nFormat = 0

TearStep(c) ==
    \/ \E d \in DiskNames : StartSetUp(c, d)
    \/ SetUpLockKey(c)
    \/ SetUpCheck(c)
    \/ SetUpMkdirAll(c)
    \/ SetUpMount(c)
    \/ SetUpMountNoSource(c)
    \/ StartTearDown(c)
    \/ TearDownCheck(c)
    \/ TearDownGetMountRefs(c)
    \/ TearDownLockKey(c)
    \/ TearDownReload(c)
    \/ TearDownUnmount(c)
    \/ TearDownRemove(c)

NextTear == \E c \in Contexts : TearStep(c)

SpecTear == InitTear /\ [][NextTear]_vars

---------------------------------------------------------------------------
(* The device scanner on its own: findDiskByLun is called once on a        *)
(* listing of /sys/bus/scsi/devices drawn from entries of the targets 1, 3 *)
(* and 4 and an entry that is not a device, with vendor and model files    *)
(* as sysfs pads them, in mixed case, without their newline, and of other  *)
(* hardware.                                                               *)

ScanLuns == {1, 5}

ScanNames ==
    {ScsiName(1, 5), ScsiName(3, 5), ScsiName(4, 5), <<"h", "o", "s", "t", "3">>}

ScanVendors ==
    {Msft \o Spaces(4) \o NewLine,
     <<"M", "s", "f", "t">> \o NewLine,
     Msft,
     <<"A", "T", "A">> \o Spaces(5) \o NewLine}

ScanModels ==
    {<<"V", "i", "r", "t", "u", "a", "l", " ", "D", "i", "s", "k">>
        \o Spaces(4) \o NewLine,
     VirtualDisk,
     <<"C", "D", "R", "O", "M">> \o NewLine}

ScanEntries ==
    {[name |-> n, vendor |-> v, model |-> m,
      block |-> IF n = ScsiName(1, 5) THEN "sdb"
                ELSE IF n = ScsiName(3, 5) THEN "sdc" ELSE "sdd",
      blockErr |-> e] :
        n \in ScanNames, v \in ScanVendors, m \in ScanModels, e \in BOOLEAN}

\* The directories drawn: up to MaxEntries entries, no two of one name.
ScanListings ==
    {S \in {{f[i] : i \in DOMAIN f} :
                f \in UNION {[1..n -> ScanEntries] : n \in 0..MaxEntries}} :
        \A e1, e2 \in S : e1.name = e2.name => e1 = e2}

InitScan ==
    /\ vmExists = TRUE
    /\ vmDisks = <<>>
    /\ faults = 0
    /\ pc = [c \in Contexts |-> "idle"]
    /\ op = [c \in Contexts |-> NoOp]
    /\ res = [c \in Contexts |-> NoResult]
    /\ ncalls = 0
    /\ holders = [k \in Mutexes \X Keys |-> {}]
    /\ podDir = [c \in Contexts |-> NoDir]
    /\ cinderAtt = {}
    /\ ret = NoRet
    /\ wait = [c \in Contexts |-> NoWait]
    /\ timer = [c \in Contexts |-> "off"]
    /\ scsi \in ScanListings
    /\ devs = {}
    /\ ebsAtt = {}
    /\ globalDir = [d \in DiskNames |-> NoDir]
    /\ nFormat = 0

ScanFrame ==
    UNCHANGED <<azureVars, pc, op, res, holders, podDir, cinderAtt, nodeVars, plugVars>>

\* findDiskByLun(lun, &osIOHandler{}) of vhd_util.go, whole.
FnFindDiskByLun(lun) ==
    /\ ncalls = 0
    /\ ncalls' = 1
    /\ ret' = [fn |-> "findDiskByLun", disk |-> findDiskByLun(lun, ReadDir(scsi)),
               lun |-> lun, err |-> Nil, before |-> <<>>]
    /\ ScanFrame

\* findDiskByLun(lun, io) of azure_util.go:334-367, whole.
FnFindDiskByLunReadFile(lun) ==
    /\ ncalls = 0
    /\ ncalls' = 1
    /\ ret' = [fn |-> "findDiskByLunReadFile",
               disk |-> findDiskByLunReadFile(lun, ReadDir(scsi)),
               lun |-> lun, err |-> Nil, before |-> <<>>]
    /\ ScanFrame

NextScan ==
    \/ \E lun \in ScanLuns : FnFindDiskByLun(lun)
    \/ \E lun \in ScanLuns : FnFindDiskByLunReadFile(lun)

SpecScan == InitScan /\ [][NextScan]_vars

---------------------------------------------------------------------------
(* The Glusterfs volume of one pod: setUpAtInternal, called in succession  *)
(* on the directory SetUpAt has created.                                   *)

InitGluster ==
    /\ vmExists = TRUE
    /\ vmDisks = <<>>
    /\ faults = 0
    /\ pc = [c \in Contexts |-> "idle"]
    /\ op = [c \in Contexts |-> NoOp]
    /\ res = [c \in Contexts |-> NoResult]
    /\ ncalls = 0
    /\ holders = [k \in Mutexes \X Keys |-> {}]
    /\ podDir = [c \in Contexts |-> PlainDir]
    /\ cinderAtt = {}
    /\ ret = NoRet
    /\ NodeIdle

GlusterStep(c) ==
    \/ \E l \in 1..MaxHosts : \E start \in 0..(l - 1) : StartGlusterSetUp(c, l, start)
    \/ GlusterMount(c)
    \/ GlusterSidecar(c)
    \/ GlusterContainerMount(c)

NextGluster == GlusterStep("c1")

SpecGluster == InitGluster /\ [][NextGluster]_vars

---------------------------------------------------------------------------
(* The mount-point test on its own: IsLikelyNotMountPoint is called on the *)
(* directory of a context, drawn absent or present, on the device of its   *)
(* parent or on another, with or without a mount on it (a bind mount from  *)
(* the file system of the parent leaves the device the same).              *)

StatDevices == {RootDev} \cup {DiskDevice(d) : d \in DiskNames}

StatDirs ==
    {NoDir} \cup
    {[exists |-> TRUE, mnt |-> m, dev |-> dev, pdev |-> pdev] :
        m \in {<<>>, <<DiskDevice("dA")>>}, dev \in StatDevices, pdev \in StatDevices}

InitStat ==
    /\ vmExists = TRUE
    /\ vmDisks = <<>>
    /\ faults = 0
    /\ pc = [c \in Contexts |-> "idle"]
    /\ op = [c \in Contexts |-> NoOp]
    /\ res = [c \in Contexts |-> NoResult]
    /\ ncalls = 0
    /\ holders = [k \in Mutexes \X Keys |-> {}]
    /\ podDir \in [Contexts -> StatDirs]
    /\ cinderAtt = {}
    /\ ret = NoRet
    /\ wait = [c \in Contexts |-> NoWait]
    /\ timer = [c \in Contexts |-> "off"]
    /\ scsi = {ResourceDisk}
    /\ devs = {"/dev/" \o ResourceDisk.block} \cup {DiskDevice(d) : d \in DiskNames}
    /\ ebsAtt = {}
    /\ globalDir = [d \in DiskNames |-> NoDir]
    /\ nFormat = 0

\* mounter.IsLikelyNotMountPoint(file) on the directory of context c, whole.
FnIsLikelyNotMountPoint(c, failed) ==
    /\ pc[c] = "idle"
    /\ ncalls < MaxCalls
    /\ ncalls' = ncalls + 1
    /\ LET r == IsLikelyNotMountPoint(podDir[c], failed)
           o == [NewOp("IsLikelyNotMountPoint", "") EXCEPT !.faulted = failed,
                                                           !.notMnt = r.notMnt]
       IN  Return(c, o, <<>>, r.err)
    /\ UNCHANGED <<azureVars, lockVars, nodeVars, plugVars>>

NextStat == \E c \in Contexts, failed \in BOOLEAN : FnIsLikelyNotMountPoint(c, failed)

SpecStat == InitStat /\ [][NextStat]_vars

---------------------------------------------------------------------------
(* The pods of two contexts with iSCSI volumes: SetUp and TearDown on pod  *)
(* directories that are absent or bind-mounted from the global path of a   *)
(* disk.  The global path of a disk is mounted from its device.            *)

InitIscsi ==
    /\ vmExists = TRUE
    /\ vmDisks = <<>>
    /\ faults = 0
    /\ pc = [c \in Contexts |-> "idle"]
    /\ op = [c \in Contexts |-> NoOp]
    /\ res = [c \in Contexts |-> NoResult]
    /\ ncalls = 0
    /\ holders = [k \in Mutexes \X Keys |-> {}]
    /\ podDir \in [Contexts -> {NoDir, BoundDir("dA")}]
    /\ cinderAtt = {}
    /\ ret = NoRet
    /\ wait = [c \in Contexts |-> NoWait]
    /\ timer = [c \in Contexts |-> "off"]
    /\ scsi = {ResourceDisk}
    /\ devs \in {{"/dev/" \o ResourceDisk.block} \cup {DiskDevice(d) : d \in D} :
                    D \in {{"dA"}, DiskNames}}
    /\ ebsAtt = {}
    /\ globalDir = [d \in DiskNames |-> MountedDir(DiskDevice(d))]
    /\ nFormat = 0

IscsiStep(c) ==
    \/ \E d \in DiskNames : StartIscsiSetUp(c, d)
    \/ IscsiSetUpCheck(c)
    \/ IscsiSetUpAttachDisk(c)
    \/ IscsiSetUpMkdirAll(c)
    \/ IscsiSetUpMount(c)
    \/ StartIscsiTearDown(c)
    \/ IscsiTearDownCheck(c)
    \/ IscsiTearDownRefCount(c)
    \/ IscsiTearDownUnmount(c)
    \/ IscsiTearDownDetach(c)

NextIscsi == \E c \in Contexts : IscsiStep(c)

SpecIscsi == InitIscsi /\ [][NextIscsi]_vars

---------------------------------------------------------------------------
(* The provider calls on their own: one call runs from its read of the     *)
(* instance to its return with no other call in between, on a disk list    *)
(* drawn from the lists of at most MaxLen entries.                         *)

FnLuns == {0, 1, 2, 5}

FnDisks ==
    {DataDisk(n, DataDiskURI(n), l) : n \in {"dA", "o"}, l \in FnLuns}
        \cup {[name |-> "o", uri |-> DataDiskURI("o"), lun |-> <<>>]}

FnDiskLists ==
    UNION {[1..n -> FnDisks] : n \in 0..MaxLen}
        \cup {OtherDisks(0, NumLuns - 1), OtherDisks(1, NumLuns - 1)}

InitFn ==
    /\ vmExists \in BOOLEAN
    /\ vmDisks \in FnDiskLists
    /\ faults = 0
    /\ pc = [c \in Contexts |-> "idle"]
    /\ op = [c \in Contexts |-> NoOp]
    /\ res = [c \in Contexts |-> NoResult]
    /\ ncalls = 0
    /\ holders = [k \in Mutexes \X Keys |-> {}]
    /\ podDir = [c \in Contexts |-> NoDir]
    /\ cinderAtt = {}
    /\ ret = NoRet
    /\ NodeIdle

FnFrame ==
    UNCHANGED <<vmExists, faults, pc, op, res, holders, podDir, cinderAtt, nodeVars, plugVars>>

\* Cloud.AttachDisk(diskName, diskUri, vmName, lun, cachingMode), whole.
FnAttachDisk(diskName, lun) ==
    /\ ncalls = 0
    /\ ncalls' = 1
    /\ LET vm == getVirtualMachine(FALSE)
           err == IF ~vm.exists THEN InstanceNotFound ELSE CreateOrUpdateErr(FALSE)
       IN  /\ vmDisks' = IF err = Nil
                         THEN AttachDiskList(vm.disks, diskName,
                                             DataDiskURI(diskName), lun)
                         ELSE vmDisks
           /\ ret' = [fn |-> "AttachDisk", disk |-> diskName, lun |-> lun,
                      err |-> err, before |-> vmDisks]
    /\ FnFrame

\* Cloud.GetDiskLun(diskName, diskUri, vmName), whole.
FnGetDiskLun(diskName) ==
    /\ ncalls < 2
    /\ ncalls' = 2
    /\ LET r == GetDiskLun(getVirtualMachine(FALSE), diskName, DataDiskURI(diskName))
       IN  ret' = [fn |-> "GetDiskLun", disk |-> diskName, lun |-> r.lun,
                   err |-> r.err, before |-> ret.before]
    /\ UNCHANGED vmDisks
    /\ FnFrame

\* Cloud.GetNextDiskLun(vmName), whole.
FnGetNextDiskLun ==
    /\ ncalls < 2
    /\ ncalls' = 2
    /\ LET r == GetNextDiskLun(getVirtualMachine(FALSE))
       IN  ret' = [fn |-> "GetNextDiskLun", disk |-> "", lun |-> r.lun,
                   err |-> r.err, before |-> ret.before]
    /\ UNCHANGED vmDisks
    /\ FnFrame

NextFn ==
    \/ \E d \in DiskNames, l \in FnLuns : FnAttachDisk(d, l)
    \/ \E d \in DiskNames : FnGetDiskLun(d)
    \/ FnGetNextDiskLun

SpecFn == InitFn /\ [][NextFn]_vars

---------------------------------------------------------------------------
(* Every user of a keyed lock together: SetUpAt and TearDownAt of the      *)
(* Azure plugin, Attach and Detach of the Cinder attacher, Attach of the   *)
(* EBS attacher.  The pod directories are bind-mounted from the global     *)
(* path of disk dA, which is mounted or was unmounted.                     *)

InitKeys ==
    /\ vmExists = TRUE
    /\ vmDisks = <<>>
    /\ faults = 0
    /\ pc = [c \in Contexts |-> "idle"]
    /\ op = [c \in Contexts |-> NoOp]
    /\ res = [c \in Contexts |-> NoResult]
    /\ ncalls = 0
    /\ holders = [k \in Mutexes \X Keys |-> {}]
    /\ podDir = [c \in Contexts |-> BoundDir("dA")]
    /\ cinderAtt = {}
    /\ ret = NoRet
    /\ wait = [c \in Contexts |-> NoWait]
    /\ timer = [c \in Contexts |-> "off"]
    /\ scsi = {ResourceDisk, DataDevice}
    /\ devs = {"/dev/" \o ResourceDisk.block} \cup {DiskDevice(d) : d \in DiskNames}
    /\ ebsAtt = {}
    /\ globalDir \in {[d \in DiskNames |-> IF d = "dA" THEN g
                                            ELSE MountedDir(DiskDevice(d))] :
                         g \in {NoDir, MountedDir(DiskDevice("dA"))}}
    /\ nFormat = 0

KeyStep(c) ==
    \/ \E d \in DiskNames : StartSetUp(c, d)
    \/ SetUpLockKey(c)
    \/ SetUpCheck(c)
    \/ SetUpMkdirAll(c)
    \/ SetUpMount(c)
    \/ SetUpMountNoSource(c)
    \/ StartTearDown(c)
    \/ TearDownCheck(c)
    \/ TearDownGetMountRefs(c)
    \/ TearDownLockKey(c)
    \/ TearDownReload(c)
    \/ TearDownUnmount(c)
    \/ TearDownRemove(c)
    \/ \E d \in DiskNames : StartCinderAttach(c, d)
    \/ CinderAttachLockKey(c)
    \/ CinderAttachDisk(c)
    \/ \E d \in DiskNames : StartCinderDetach(c, d)
    \/ CinderDetachLockKey(c)
    \/ CinderDetachDisk(c)
    \/ \E v \in DiskNames : StartEbsAttach(c, v)
    \/ EbsAttachLockKey(c)
    \/ EbsAttachDisk(c)

NextKeys == \E c \in Contexts : KeyStep(c)

SpecKeys == InitKeys /\ [][NextKeys]_vars

\* Every goroutine that can take a step takes one in the end: a call that
\* is not blocked in LockKey goes on, and LockKey returns when the key is
\* free.
SpecKeysFair == SpecKeys /\ \A c \in Contexts : WF_vars(KeyStep(c))

---------------------------------------------------------------------------
(* The list operations of the provider on their own: one call on a disk    *)
(* list of at most MaxLen entries whose LUNs the provider chose, among     *)
(* them LUNs outside 0..63, entries without a LUN and several entries of   *)
(* one disk or one LUN.                                                    *)

NilPanic == "NilPointerDereference"   \* run-time panic of a nil dereference

ListLuns == {-1, 0, 1, NumLuns}

ListNames == {"dA", "o"}

ListDisks ==
    {DataDisk(n, DataDiskURI(n), l) : n \in ListNames, l \in ListLuns}
        \cup {[name |-> "o", uri |-> DataDiskURI("o"), lun |-> <<>>]}

ListDiskLists == UNION {[1..n -> ListDisks] : n \in 0..MaxLen}

\* The filter-based variants: the earlier provider code, AzureDataDisksOp
\* with action DETACH, and UpdateVMDataDisks with op.attach false.
FilterVariants == {"Cloud.DetachDiskByLun", "AzureDataDisksOp", "UpdateVMDataDisks"}

InitList ==
    /\ vmExists \in BOOLEAN
    /\ vmDisks \in ListDiskLists
    /\ faults = 0
    /\ pc = [c \in Contexts |-> "idle"]
    /\ op = [c \in Contexts |-> NoOp]
    /\ res = [c \in Contexts |-> NoResult]
    /\ ncalls = 0
    /\ holders = [k \in Mutexes \X Keys |-> {}]
    /\ podDir = [c \in Contexts |-> NoDir]
    /\ cinderAtt = {}
    /\ ret = NoRet
    /\ NodeIdle

\* What a detach call does after its read: it returns InstanceNotFound, or
\* commits the list built and returns the error of CreateOrUpdate.  panics:
\* the call dereferences a nil pointer while it builds the list.
DetachCommit(panics, built) ==
    LET vm == getVirtualMachine(FALSE)
        err == IF ~vm.exists THEN InstanceNotFound
               ELSE IF panics THEN NilPanic
               ELSE CreateOrUpdateErr(FALSE)
    IN  [err |-> err, disks |-> IF err = Nil THEN built ELSE vmDisks]

\* Cloud.DetachDiskByName(diskName, diskUri, vmName) of azure_storage.go,
\* whole.  The entry found is logged with *disk.Lun: an entry without a LUN
\* panics.
FnDetachDiskByName(diskName) ==
    /\ ncalls = 0
    /\ ncalls' = 1
    /\ LET found == {i \in 1..Len(vmDisks) :
                        MatchesDisk(vmDisks[i], diskName, DataDiskURI(diskName))}
           r == DetachCommit(found # {} /\ vmDisks[Min(found)].lun = <<>>,
                             DetachDiskByNameList(vmDisks, diskName,
                                                  DataDiskURI(diskName)))
       IN  /\ vmDisks' = r.disks
           /\ ret' = [fn |-> "DetachDiskByName", disk |-> diskName, lun |-> -1,
                      err |-> r.err, before |-> vmDisks]
    /\ FnFrame

\* Cloud.DetachDiskByLun(lun, vmName) of azure_storage.go, whole.
FnDetachDiskByLun(lun) ==
    /\ ncalls = 0
    /\ ncalls' = 1
    /\ LET r == DetachCommit(FALSE, DetachDiskByLunList(vmDisks, lun))
       IN  /\ vmDisks' = r.disks
           /\ ret' = [fn |-> "DetachDiskByLun", disk |-> "", lun |-> lun,
                      err |-> r.err, before |-> vmDisks]
    /\ FnFrame

\* The filter-based detach by LUN of variant fn, whole.
FnFilterDetachByLun(fn, lun) ==
    /\ ncalls = 0
    /\ ncalls' = 1
    /\ LET r == DetachCommit(FALSE, FilterDetachByLunList(vmDisks, lun))
       IN  /\ vmDisks' = r.disks
           /\ ret' = [fn |-> fn, disk |-> "", lun |-> lun, err |-> r.err,
                      before |-> vmDisks]
    /\ FnFrame

\* The filter-based Cloud.DetachDiskByName of the earlier provider code,
\* whole: every entry found is logged with *disk.Lun.
FnFilterDetachByName(diskName) ==
    /\ ncalls = 0
    /\ ncalls' = 1
    /\ LET r == DetachCommit(\E i \in 1..Len(vmDisks) :
                                /\ MatchesDisk(vmDisks[i], diskName,
                                               DataDiskURI(diskName))
                                /\ vmDisks[i].lun = <<>>,
                             FilterDetachByNameList(vmDisks, diskName,
                                                    DataDiskURI(diskName)))
       IN  /\ vmDisks' = r.disks
           /\ ret' = [fn |-> "Cloud.DetachDiskByName", disk |-> diskName,
                      lun |-> -1, err |-> r.err, before |-> vmDisks]
    /\ FnFrame

NextList ==
    \/ \E d \in ListNames : FnDetachDiskByName(d)
    \/ \E l \in ListLuns : FnDetachDiskByLun(l)
    \/ \E fn \in FilterVariants, l \in ListLuns : FnFilterDetachByLun(fn, l)
    \/ \E d \in ListNames : FnFilterDetachByName(d)
    \/ FnGetNextDiskLun

SpecList == InitList /\ [][NextList]_vars

---------------------------------------------------------------------------
(* What the claims speak of *)

\* The LUNs the entries of a list carry.
LunsOf(disks) ==
    {disks[i].lun[1] : i \in {j \in 1..Len(disks) : disks[j].lun # <<>>}}

\* The positions of the entries of a list that belong to disk diskName.
EntriesOf(disks, diskName) ==
    {i \in 1..Len(disks) :
        disks[i].name = diskName \/ disks[i].uri = DataDiskURI(diskName)}

\* Context c is between its LockKey and its return.
SetUpCritical   == {"SetUpCheck", "SetUpMkdirAll", "SetUpMount"}
CinderCritical  == {"CinderAttachDisk", "CinderDetachDisk"}
SetUpPending    == {"SetUpLockKey"}
CinderPending   == {"CinderAttachLockKey", "CinderDetachLockKey"}

\* The key the call of context c locks.
KeyOf(c) ==
    IF pc[c] \in SetUpCritical \cup SetUpPending
    THEN <<"volumeLocks", op[c].disk>>
    ELSE <<"attachDetachMutex", op[c].disk>>

\* The call of context c returns in this step.
Returns(c) == pc[c] # "idle" /\ pc'[c] = "idle"

---------------------------------------------------------------------------
(* C1 *)

\* C1: KeyedLock mutual exclusion.  In every reachable state at most one
\* context holds a given key, a context that is between its LockKey(k) and
\* its return (where the deferred UnlockKey(k) runs) holds k, and a context
\* that waits in LockKey or runs no call holds nothing.
C1_MutualExclusion ==
    /\ \A k \in DOMAIN holders : Cardinality(holders[k]) <= 1
    /\ \A c \in Contexts :
          IF pc[c] \in SetUpCritical \cup CinderCritical
          THEN \A k \in DOMAIN holders : c \in holders[k] <=> k = KeyOf(c)
          ELSE \A k \in DOMAIN holders : c \notin holders[k]

\* A context holds a key while another one waits in LockKey for the same key.
C1_Witness ==
    \E c, w \in Contexts :
        /\ c # w
        /\ pc[c] \in SetUpCritical \cup CinderCritical
        /\ pc[w] \in SetUpPending \cup CinderPending
        /\ KeyOf(c) = KeyOf(w)
        /\ holders[KeyOf(c)] = {c}

---------------------------------------------------------------------------
(* C2 *)

\* The LockKey step of the call of context c.
LockKeyStep(c) ==
    \/ SetUpLockKey(c)
    \/ CinderAttachLockKey(c)
    \/ CinderDetachLockKey(c)

\* C2: operations on distinct keys never block each other.  Whenever a
\* context waits in LockKey(B) and no context holds B, its LockKey can
\* proceed, whatever keys other than B the other contexts hold or wait for.
C2_DistinctKeysIndependent ==
    \A c \in Contexts :
        (pc[c] \in SetUpPending \cup CinderPending /\ holders[KeyOf(c)] = {})
            => ENABLED LockKeyStep(c)

\* Two contexts are inside the critical sections of two different disks of
\* one registry at the same time.
C2_Witness ==
    \E c, w \in Contexts :
        /\ pc[c] \in SetUpCritical /\ pc[w] \in SetUpCritical
        /\ op[c].disk # op[w].disk
        /\ holders[KeyOf(c)] = {c} /\ holders[KeyOf(w)] = {w}

---------------------------------------------------------------------------
(* C3 *)

\* C3: Azure Attach and Detach calls on the same disk are serialized, so
\* that concurrent Attach calls for one disk never leave two entries for it:
\* while no provider request fails, the instance's disk list never holds two
\* entries for one disk.
C3_SameDiskSerialized ==
    faults = 0 =>
        \A d \in DiskNames : Cardinality(EntriesOf(vmDisks, d)) <= 1

---------------------------------------------------------------------------
(* C4 *)

---------------------------------------------------------------------------
(* C5 *)

\* C5: the provider's AttachDisk is idempotent.  The list an AttachDisk call
\* is about to commit never holds two entries for the disk at the LUN
\* requested: when the list read has the disk at that LUN, none is appended.
C5_AttachDiskIdempotent ==
    \A c \in Contexts :
        pc[c] = "AttachCommit" =>
            Cardinality({i \in EntriesOf(op[c].snap, op[c].disk) :
                            op[c].snap[i].lun = <<op[c].lun>>}) <= 1

---------------------------------------------------------------------------
(* C6 *)

\* C6: in every reachable state no two entries of the instance's disk list
\* carry the same LUN.
C6_UniqueLuns ==
    \A i, j \in 1..Len(vmDisks) :
        (i # j /\ vmDisks[i].lun # <<>>) => vmDisks[i].lun # vmDisks[j].lun

---------------------------------------------------------------------------
(* C7 *)

\* C7: for every disk list of an existing instance in which at least one
\* LUN of 0..63 is unused, GetNextDiskLun returns without error the smallest
\* LUN of 0..63 that no disk of the list carries; disks at {0, 2, 5} give 1.
C7_LowestUnusedLun ==
    (/\ ret.fn = "GetNextDiskLun"
     /\ vmExists
     /\ (0..(NumLuns - 1)) \ LunsOf(vmDisks) # {})
    => /\ ret.err = Nil
       /\ ret.lun \in (0..(NumLuns - 1)) \ LunsOf(vmDisks)
       /\ \A l \in 0..(ret.lun - 1) : l \in LunsOf(vmDisks)
       /\ LunsOf(vmDisks) = {0, 2, 5} => ret.lun = 1

\* GetNextDiskLun has returned 1 for a list with disks at LUNs {0, 2, 5}.
C7_Witness ==
    /\ ret.fn = "GetNextDiskLun"
    /\ vmExists
    /\ LunsOf(vmDisks) = {0, 2, 5}
    /\ ret.lun = 1

---------------------------------------------------------------------------
(* C8 *)

\* C8: when the disks of the instance occupy all 64 LUNs, GetNextDiskLun
\* fails with VolumeNotFound and lun -1, and an Attach whose GetNextDiskLun
\* fails returns a failure with an empty token, without having called
\* AttachDisk and without having changed the disk list.
C8_SaturatedAttachFails ==
    [][\A c \in Contexts :
          (pc[c] = "GetNextDiskLun" /\ pc'[c] # pc[c]) =>
             /\ (/\ LunsOf(vmDisks) = 0..(NumLuns - 1)
                 /\ vmExists /\ faults' = faults)
                => /\ Returns(c)
                   /\ res'[c].nextErr = VolumeNotFound
                   /\ res'[c].lun = -1
             /\ (Returns(c) /\ res'[c].nextErr # Nil)
                => /\ res'[c].err # Nil
                   /\ res'[c].token = <<>>
                   /\ res'[c].nAttachDisk = 0
                   /\ res'[c].nWrite = 0
                   /\ vmDisks' = vmDisks]_vars

\* An Attach has returned "all LUNs are used" on an instance whose disks
\* occupy every LUN.
C8_Witness ==
    \E c \in Contexts :
        /\ res[c].kind = "Attach"
        /\ res[c].nextErr = VolumeNotFound
        /\ res[c].err = NoLunFree
        /\ LunsOf(vmDisks) = 0..(NumLuns - 1)
        /\ Len(vmDisks) = NumLuns

---------------------------------------------------------------------------
(* C9 *)

\* No entry of the list is an entry of disk diskName.
NotListed(disks, diskName) == EntriesOf(disks, diskName) = {}

\* C9 as stated: GetDiskLun fails with VolumeNotFound for every disk that is
\* not in the disk list of the instance, and right after a successful
\* AttachDisk of a disk with lun = L, GetDiskLun for that disk returns L.
C9_GetDiskLunAfterAttach ==
    [][\A c \in Contexts :
          /\ (/\ pc[c] = "GetDiskLun"
              /\ pc'[c] # pc[c]
              /\ vmExists /\ faults' = faults
              /\ NotListed(vmDisks, op[c].disk))
             => /\ op'[c].lookup = VolumeNotFound
                /\ op'[c].lun = -1
          /\ (pc[c] = "AttachCommit" /\ Returns(c) /\ res'[c].err = Nil)
             => GetDiskLun([err |-> Nil, exists |-> TRUE, disks |-> vmDisks'],
                           op[c].disk, DataDiskURI(op[c].disk))
                    = [lun |-> op[c].lun, err |-> Nil]]_vars

---------------------------------------------------------------------------
(* C10 *)

\* C10: an Attach whose first GetDiskLun lookup failed with InstanceNotFound
\* goes on to request the attachment: it does not return before it has
\* called AttachDisk.
C10_InstanceNotFoundProceeds ==
    \A c \in Contexts :
        (res[c].kind = "Attach" /\ res[c].lookup = InstanceNotFound)
            => res[c].nAttachDisk >= 1

---------------------------------------------------------------------------
(* C11 *)

\* The calls of Attach: of the Azure attacher and of the EBS attacher.
AttachKinds == {"Attach", "EbsAttach"}

---------------------------------------------------------------------------
(* C12 *)

\* The token is a plain base-10 numeral: digits only, no sign, no leading zero.
PlainNumeral(token) ==
    /\ token # <<>>
    /\ \A i \in 1..Len(token) : IsDigit(token[i])
    /\ Len(token) > 1 => token[1] # "0"

---------------------------------------------------------------------------
(* C13 *)

\* C13: a WaitForAttach called with an empty token fails at once: its first
\* step returns the "devicePath is empty" error, and it has scanned no
\* device, created no ticker or timer and polled nothing.
C13_EmptyTokenFailsFast ==
    \A c \in Contexts :
        (/\ wait[c].kind = "WaitForAttach"
         /\ wait[c].dev = <<>>
         /\ pc[c] # "WaitForAttach")
        => /\ pc[c] # "WaitForAttachLoop"
           /\ wait[c].err = DevicePathEmpty
           /\ wait[c].out = ""
           /\ wait[c].nScan = 0
           /\ ~wait[c].started /\ ~wait[c].fired
           /\ wait[c].seen = "none"
           /\ timer[c] = "off"

\* A WaitForAttach called with the empty token has returned.
C13_Witness ==
    \E c \in Contexts :
        /\ wait[c].kind = "WaitForAttach"
        /\ wait[c].dev = <<>>
        /\ wait[c].err = DevicePathEmpty
        /\ pc[c] = "idle"

---------------------------------------------------------------------------
(* C14 *)

\* C14: a WaitForAttach called with a valid LUN token that returns a failure
\* returns the timeout error, and only after the timer of the call has
\* fired.
C14_FailsOnlyAfterTimeout ==
    \A c \in Contexts :
        (/\ wait[c].kind = "WaitForAttach"
         /\ pc[c] = "idle"
         /\ PlainNumeral(wait[c].dev)
         /\ wait[c].err # Nil)
        => (wait[c].err = AttachTimeout /\ wait[c].fired)

---------------------------------------------------------------------------
(* C15 *)

\* C15: WaitForAttach polls the device scanner: a call that has scanned the
\* devices and returns while its timeout has not fired returns the path of
\* the device of its LUN; an empty scan is not an error.
C15_PollsUntilDeviceAppears ==
    \A c \in Contexts :
        (/\ wait[c].kind = "WaitForAttach"
         /\ pc[c] = "idle"
         /\ wait[c].nScan >= 1
         /\ ~wait[c].fired)
        => /\ wait[c].err = Nil
           /\ wait[c].out # ""
           /\ wait[c].out = findDiskByLun(wait[c].lun, <<DataDevice>>)

---------------------------------------------------------------------------
(* C16 *)

\* The places of a WaitForAttach or WaitForDetach call that has not returned.
WaitPcs == {"WaitForAttach", "WaitForAttachLoop", "WaitForDetachLoop"}

\* C16: under fairness of the timer and of the timer case of the select,
\* every WaitForAttach and WaitForDetach call returns in the end, whatever
\* the device does.
C16_WaitsTerminate ==
    \A c \in Contexts : (pc[c] \in WaitPcs) ~> (pc[c] = "idle")

\* A wait call that polled the device path has returned on the timeout.
C16_Witness ==
    \E c \in Contexts :
        /\ pc[c] = "idle"
        /\ wait[c].fired
        /\ wait[c].err \in {AttachTimeout, DetachTimeout}
        /\ wait[c].seen \in {"exists", "gone"}

---------------------------------------------------------------------------
(* C20 *)

\* C20: WaitForDetach returns success only in a poll that finds the device
\* path absent; it returns the "still attached" timeout error only once its
\* timer has fired and no poll found the path absent; it never returns
\* success while the device path exists.
C20_WaitForDetach ==
    [][\A c \in Contexts :
          (pc[c] = "WaitForDetachLoop" /\ pc'[c] = "idle") =>
             /\ wait'[c].err = Nil
                => /\ wait'[c].seen = "gone"
                   /\ wait[c].path \notin devs
                   /\ wait[c].path \notin devs'
             /\ wait'[c].err = DetachTimeout
                => /\ timer[c] = "fired"
                   /\ wait'[c].fired
                   /\ wait'[c].seen \in {"none", "exists"}
             /\ wait'[c].err \in {Nil, DetachTimeout, StatError}]_vars

\* A WaitForDetach has returned success from a poll that found the path
\* absent.
C20_Witness ==
    \E c \in Contexts :
        /\ wait[c].kind = "WaitForDetach"
        /\ pc[c] = "idle"
        /\ wait[c].err = Nil
        /\ wait[c].seen = "gone"
        /\ wait[c].path \notin devs

---------------------------------------------------------------------------
(* C17 *)

\* C17: MountDevice is idempotent.  A MountDevice whose stat of the global
\* path succeeds and finds it mounted returns nil in that step without a
\* FormatAndMount call; a call makes at most one FormatAndMount call, and
\* none unless the path was no mount point; and a MountDevice that follows a
\* successful MountDevice for the same disk, with no failure of its own,
\* succeeds without a FormatAndMount call: the two calls made at most one,
\* and the path is mounted.
C17_MountDeviceIdempotent ==
    [][\A c \in Contexts :
          /\ (/\ pc[c] = "MountDeviceCheck" /\ pc'[c] # pc[c]
              /\ globalDir[op[c].disk].mnt # <<>>
              /\ faults' = faults)
             => /\ pc'[c] = "idle"
                /\ res'[c].err = Nil
                /\ res'[c].nFormat = 0
                /\ nFormat' = nFormat
          /\ (Returns(c) /\ op[c].kind = "MountDevice")
             => /\ res'[c].nFormat <= 1
                /\ res'[c].nFormat = 1 => res'[c].notMnt = TRUE
                /\ (/\ res[c].kind = "MountDevice" /\ res[c].disk = op[c].disk
                    /\ res[c].err = Nil
                    /\ ~res'[c].faulted)
                   => /\ res'[c].err = Nil
                      /\ res'[c].nFormat = 0
                      /\ res[c].nFormat + res'[c].nFormat <= 1
                      /\ globalDir'[op[c].disk].mnt # <<>>]_vars

\* Two MountDevice calls for one disk have returned success: the first one
\* made the one FormatAndMount call, the second one none.
C17_Witness ==
    /\ ncalls = 2
    /\ pc["c1"] = "idle"
    /\ res["c1"].kind = "MountDevice" /\ res["c1"].err = Nil
    /\ res["c1"].nFormat = 0
    /\ nFormat = 1 /\ faults = 0
    /\ globalDir[res["c1"].disk].mnt # <<>>
    /\ \A d \in DiskNames \ {res["c1"].disk} : globalDir[d].mnt = <<>>

---------------------------------------------------------------------------
(* C18 *)

---------------------------------------------------------------------------
(* C19 *)

\* C19: a Detach of a disk that has no entry in the disk list of the
\* instance, on an instance that exists, with its provider requests answered
\* and no other call running meanwhile, returns success and leaves the list
\* as it was.
C19_DetachAbsentDisk ==
    [][\A c \in Contexts :
          (/\ Returns(c) /\ op[c].kind = "Detach"
           /\ NotListed(vmDisks, op[c].disk)
           /\ vmExists /\ ~res'[c].faulted)
          => /\ res'[c].err = Nil
             /\ vmDisks' = vmDisks]_vars

\* The first call of a behaviour, a Detach of a disk the list never held, has
\* returned success.
C19_Witness ==
    /\ ncalls = 1
    /\ pc["c1"] = "idle"
    /\ res["c1"].kind = "Detach" /\ res["c1"].err = Nil
    /\ res["c1"].nWrite = 1
    /\ NotListed(vmDisks, res["c1"].disk)
    /\ Len(vmDisks) > 0

---------------------------------------------------------------------------
(* C21 *)

\* The UnmountDevice of the Azure and of the Cinder detacher.
UnmountKinds == {"UnmountDevice", "CinderUnmountDevice"}

\* C21: an UnmountDevice whose file-system calls do not fail returns success;
\* on a global path that does not exist it issues no Unmount and no removal
\* and leaves the path as it is, and on a path that exists it issues one
\* Unmount and one removal, after which a mounted path is gone.
C21_UnmountDeviceAbsentNoOp ==
    [][\A c \in Contexts :
          (/\ Returns(c)
           /\ res'[c].kind \in UnmountKinds
           /\ ~res'[c].faulted)
          => LET d == res'[c].disk
             IN  /\ res'[c].err = Nil
                 /\ IF ~globalDir[d].exists
                    THEN /\ res'[c].nUnmount = 0
                         /\ res'[c].nRemove = 0
                         /\ globalDir'[d] = globalDir[d]
                    ELSE /\ res'[c].nUnmount = 1
                         /\ res'[c].nRemove = 1
                         /\ globalDir[d].mnt # <<>> => globalDir'[d] = NoDir]_vars

---------------------------------------------------------------------------
(* C22 *)

\* C22: UnmountDevice swallows no failure: it returns nil only when the
\* Unmount of the global path succeeded or the path did not exist, and it
\* returns an error when Unmount failed and the path is still mounted.
C22_UnmountDeviceReportsFailure ==
    [][\A c \in Contexts :
          (Returns(c) /\ res'[c].kind = "UnmountDevice")
          => /\ res'[c].err = Nil => res'[c].inner = Nil
             /\ (/\ res'[c].inner = MountError
                 /\ globalDir'[res'[c].disk].mnt # <<>>)
                => res'[c].err # Nil]_vars

---------------------------------------------------------------------------
(* C23 *)

\* C23: a TearDown that unmounted its pod path and whose GetMountRefs, read
\* under the lock, returned exactly one entry has made exactly one Detach
\* call; with two or more entries it has made none.
C23_DetachByRefCount ==
    \A c \in Contexts :
        (/\ res[c].kind = "TearDownAt"
         /\ res[c].nUnmount = 1
         /\ res[c].err = Nil)
        => /\ Len(res[c].refs) = 1 => res[c].nDetach = 1
           /\ Len(res[c].refs) >= 2 => res[c].nDetach = 0

---------------------------------------------------------------------------
(* C24 *)

\* The places of an iSCSI SetUp between its mount-point check and its bind
\* mount.
IscsiBinding == {"IscsiSetUpAttachDisk", "IscsiSetUpMkdirAll", "IscsiSetUpMount"}

\* C24: whatever the interleaving of the TearDown of one pod with the SetUp
\* of another on the same disk, when TearDown makes its Detach call no other
\* pod has the disk bind-mounted and no SetUp for the disk is between its
\* mount-point check and its bind mount.
C24_NoDetachWhileInUse ==
    [][\A c \in Contexts :
          (/\ pc[c] = "IscsiTearDownDetach"
           /\ Returns(c)
           /\ res'[c].nDetach = 1)
          => \A p \in Contexts \ {c} :
                /\ ~(podDir[p].mnt # <<>> /\ podDir[p].dev = op[c].snap[1])
                /\ ~(pc[p] \in IscsiBinding
                     /\ DiskDevice(op[p].disk) = op[c].snap[1])]_vars

---------------------------------------------------------------------------
(* C25 *)

\* The pods whose directory has the global path of disk d bind-mounted.
PodsUsing(dirs, d) == {p \in Contexts : dirs[p].mnt = makeGlobalPDPath(d)}

\* The global paths among the references a TearDown read under the lock.
DisksIn(refs) ==
    {d \in DiskNames : \E i \in 1..Len(refs) : refs[i] = makeGlobalPDPath(d)}

\* C25: when a TearDown that unmounted a pod's bind mount of a disk returns
\* and no call is in progress, the global path of the disk is mounted and
\* the disk attached to the node if a pod still bind-mounts it, and the
\* global path is unmounted and the disk detached if none does.
C25_GlobalMountFollowsPods ==
    [][\A c \in Contexts :
          (/\ Returns(c)
           /\ res'[c].kind = "TearDownAt"
           /\ res'[c].nUnmount = 1
           /\ res'[c].err = Nil
           /\ \A p \in Contexts : pc'[p] = "idle")
          => \A d \in DisksIn(res'[c].refs) :
                IF PodsUsing(podDir', d) # {}
                THEN globalDir'[d].mnt # <<>> /\ DiskDevice(d) \in devs'
                ELSE globalDir'[d].mnt = <<>> /\ DiskDevice(d) \notin devs']_vars

---------------------------------------------------------------------------
(* C26 *)

\* C26: a TearDown of a pod directory that exists and is no mount point, or
\* whose first GetMountRefs returns no reference, makes no Unmount and no
\* Detach call, removes the directory and returns nil.
C26_NeverMountedIsBenign ==
    \A c \in Contexts :
        (/\ res[c].kind = "TearDownAt"
         /\ ~res[c].faulted
         /\ res[c].lookup = Nil
         /\ (res[c].notMnt \/ res[c].nRefs = 0))
        => /\ res[c].nUnmount = 0
           /\ res[c].nDetach = 0
           /\ res[c].nRemove = 1
           /\ res[c].err = Nil

---------------------------------------------------------------------------
(* C27 *)

\* C27: an Attach that succeeds commits the list it read earlier with its
\* own disk appended, so a different disk that was not on the list read is
\* not on the list committed, whatever another Attach committed in between:
\* the update of the other call is lost.
C27_CommitOverwritesList ==
    [][\A c \in Contexts :
          (/\ pc[c] = "AttachCommit"
           /\ Returns(c)
           /\ res'[c].err = Nil)
          => \A d \in DiskNames \ {op[c].disk} :
                NotListed(op[c].snap, d) => NotListed(vmDisks', d)]_vars

\* Two Attach calls for two different disks have both committed and returned
\* success, and the list of the instance lacks one of the two disks.
C27_Witness ==
    /\ \A c \in Contexts :
          /\ pc[c] = "idle"
          /\ res[c].kind = "Attach"
          /\ res[c].err = Nil
          /\ res[c].nWrite = 1
    /\ res["c1"].disk # res["c2"].disk
    /\ \E c \in Contexts : NotListed(vmDisks, res[c].disk)

---------------------------------------------------------------------------
(* C28 *)

\* The disks mounted on their global path from the device that the pod
\* directory of context c shows: what the live mount table says c uses.
MountedDisk(c) ==
    {d \in DiskNames : globalDir[d].mnt # <<>> /\ globalDir[d].dev = podDir[c].dev}

\* C28: TearDownAt acts on what the mount table says, whatever this process
\* did before: the key it locks is the disk whose global mount the table
\* shows for the pod's device, and when it succeeds it has unmounted its own
\* pod path once and made no Detach call, whether the bind mount was made by
\* a SetUpAt of this process or was found in the table.
C28_TearDownRestartSafe ==
    [][\A c \in Contexts :
          /\ (/\ pc[c] = "TearDownGetMountRefs"
              /\ pc'[c] = "TearDownLockKey"
              /\ MountedDisk(c) # {})
             => op'[c].disk \in MountedDisk(c)
          /\ (/\ Returns(c)
              /\ res'[c].kind = "TearDownAt"
              /\ res'[c].nRefs >= 1
              /\ ~res'[c].faulted)
             => /\ res'[c].err = Nil
                /\ res'[c].nUnmount = 1
                /\ res'[c].nDetach = 0
                /\ podDir'[c] = NoDir]_vars

\* Witness of C28: a TearDownAt that is the first call of the process (the
\* bind mount is one the process found in the mount table) has locked the
\* key of disk dA, unmounted the pod path and removed the directory.
C28_Witness ==
    \E c \in Contexts :
        /\ ncalls = 1
        /\ pc[c] = "idle"
        /\ res[c].kind = "TearDownAt"
        /\ res[c].err = Nil
        /\ res[c].disk = "dA"
        /\ res[c].nUnmount = 1
        /\ podDir[c] = NoDir

---------------------------------------------------------------------------
(* C29 *)

\* The contents of a vendor or model file read as word: upper-cased and
\* without its newline, it is word followed by spaces only.
Signature(text, word) ==
    \E up \in {ToUpper(text)} :
        \E line \in {IF up # <<>> /\ up[Len(up)] = "\n"
                      THEN SubSeq(up, 1, Len(up) - 1) ELSE up} :
            line \in {word \o Spaces(n) : n \in 0..Len(line)}

\* Entry f is named target:bus:lun:id with a target above 2 and the LUN
\* asked for, and has the vendor and model of a VHD.
Qualifies(f, lun) ==
    \E arr \in {Split(f.name, ":")} :
        /\ Len(arr) = 4
        /\ Atoi(arr[1]).err = Nil /\ Atoi(arr[1]).val > 2
        /\ Atoi(arr[3]).err = Nil /\ Atoi(arr[3]).val = lun
        /\ Signature(f.vendor, Msft)
        /\ Signature(f.model, VirtualDisk)

\* C29: findDiskByLun(lun) returns the device node of the first child of the
\* block directory of an entry with a target above 2, the LUN asked for and
\* the vendor and model MSFT / VIRTUAL DISK (in any case, trailing spaces
\* allowed) when the listing has such an entry, and the empty string when it
\* has none; this holds of either findDiskByLun.
C29_FindDiskByLunMatches ==
    ret.fn \in {"findDiskByLun", "findDiskByLunReadFile"}
    => \E dirs \in {ReadDir(scsi)} :
          \E hits \in {{i \in 1..Len(dirs) : Qualifies(dirs[i], ret.lun)}} :
              IF hits = {} THEN ret.disk = ""
              ELSE \E i \in hits : ret.disk = "/dev/" \o dirs[i].block

---------------------------------------------------------------------------
(* C30 *)

---------------------------------------------------------------------------
(* C31 *)

\* The pass of a setup, o its record: the k-th host tried is the k-th from
\* start, wrapping around, so no host is tried twice; only the last mount
\* tried can have succeeded.
GlusterPass(o) ==
    /\ Len(o.tried) <= o.hosts
    /\ \A k \in 1..Len(o.tried) :
          /\ o.tried[k].host = (o.start + k - 1) % o.hosts
          /\ k < Len(o.tried) => ~o.tried[k].ok

\* C31: the Glusterfs mounter starts at the host picked and goes on to the
\* next host, wrapping around, whenever a mount fails: in that pass every
\* host is tried at most once, the pass ends with the first mount that
\* succeeds, and a setup returns a mount failure only after the mount of
\* every host was tried and failed.
C31_GlusterTriesEveryHost ==
    \A c \in Contexts :
        /\ op[c].kind = "GlusterSetUp" => GlusterPass(op[c])
        /\ res[c].kind = "GlusterSetUp"
           => /\ GlusterPass(res[c])
              /\ res[c].spcTried = <<>> /\ res[c].err = Nil
                 => res[c].tried[Len(res[c].tried)].ok
              /\ res[c].err # Nil
                 => /\ Len(res[c].tried) = res[c].hosts
                    /\ \A k \in 1..Len(res[c].tried) : ~res[c].tried[k].ok

\* A setup that started at another host than the first has gone on after
\* each failed mount, wrapped around, and succeeded at the last host left.
C31_Witness ==
    \E c \in Contexts :
        /\ res[c].kind = "GlusterSetUp"
        /\ res[c].err = Nil
        /\ res[c].hosts > 1
        /\ res[c].start > 0
        /\ Len(res[c].tried) = res[c].hosts
        /\ res[c].spcTried = <<>>

---------------------------------------------------------------------------
(* SetUpAt and SetUp on a pod directory that is already mounted.           *)

SetUpKinds == {"SetUpAt", "IscsiSetUp"}

\* C32: a SetUpAt (and an iSCSI SetUp) that finds the pod directory to be a
\* mount point returns nil, issues no Mount call and leaves the directory as
\* it is; a Mount call is issued only on a pod directory on which nothing is
\* mounted, so however many setups run for a pod, its directory carries one
\* bind mount of the global path.
C32_SetUpDetectsMount ==
    [][\A c \in Contexts :
          Returns(c) /\ op[c].kind \in SetUpKinds
          => /\ (res'[c].lookup = Nil /\ res'[c].notMnt = FALSE)
                => /\ res'[c].err = Nil
                   /\ res'[c].nMount = 0
                   /\ podDir'[c] = podDir[c]
             /\ res'[c].nMount > 0
                => /\ res'[c].nMount = 1
                   /\ podDir[c].mnt = <<>>
                   /\ res'[c].err = Nil
                      => podDir'[c].mnt = makeGlobalPDPath(res'[c].disk)]_vars

\* Context c1 made both calls: the first SetUpAt mounted the directory, the
\* second found the mount and returned nil without a Mount call.
C32_Witness ==
    /\ ncalls = 2
    /\ pc["c2"] = "idle" /\ res["c2"] = NoResult
    /\ pc["c1"] = "idle"
    /\ res["c1"].kind = "SetUpAt"
    /\ res["c1"].notMnt = FALSE
    /\ res["c1"].err = Nil
    /\ res["c1"].nMount = 0
    /\ podDir["c1"].mnt = makeGlobalPDPath(res["c1"].disk)

---------------------------------------------------------------------------
(* The lock key of TearDownAt against the lock key of SetUpAt.             *)

\* C33: the key TearDownAt locks, path.Base of the first mount reference of
\* its pod path, is the name of the disk whose global path is bind-mounted on
\* the pod directory, the key SetUpAt locked when it made that mount:
\* whatever the mount table lists first.
C33_TearDownLocksDiskName ==
    \A c \in Contexts :
        pc[c] = "TearDownLockKey"
        => \A d \in DiskNames :
              podDir[c].mnt = makeGlobalPDPath(d) => op[c].disk = d

---------------------------------------------------------------------------
(* What a TearDownAt that returns nil has done.                            *)

\* C34: TearDownAt returns nil only when the pod directory is no mount point
\* any more and has been removed: a TearDownAt whose mount-point check after
\* the Unmount failed, or whose directory is still there, returns an error.
C34_TearDownSuccessMeansRemoved ==
    [][\A c \in Contexts :
          (Returns(c) /\ op[c].kind = "TearDownAt" /\ res'[c].err = Nil)
          => /\ res'[c].inner \in {"none", Nil}
             /\ podDir'[c].mnt = <<>>
             /\ ~podDir'[c].exists]_vars

---------------------------------------------------------------------------
(* The rollback of a SetUpAt whose bind mount failed.                      *)

---------------------------------------------------------------------------
(* Attach and then Detach of one disk.  The before of a call is the        *)
(* data-disk list of the instance when the call was made.                  *)

\* C36: a successful Attach of a disk that the list did not hold, followed
\* by a successful Detach with the name of that disk, leaves the data-disk
\* list of the instance as it was before the Attach: the same entries in
\* the same order.
C36_AttachDetachRoundTrip ==
    [][\A c \in Contexts :
          (/\ Returns(c) /\ op[c].kind = "Detach" /\ res'[c].err = Nil
           /\ res[c].kind = "Attach" /\ res[c].err = Nil
           /\ res[c].disk = op[c].disk
           /\ NotListed(res[c].before, op[c].disk))
          => vmDisks' = res[c].before]_vars

\* An Attach that appended the disk and a Detach that removed it again, on
\* an instance with other disks.
C36_Witness ==
    /\ ncalls = 2
    /\ pc["c1"] = "idle"
    /\ res["c1"].kind = "Detach" /\ res["c1"].err = Nil
    /\ res["c1"].nWrite = 1
    /\ vmDisks \in InitDiskLists
    /\ NotListed(vmDisks, res["c1"].disk)
    /\ \E i \in 0..(NumLuns - 1) :
          res["c1"].before
             = vmDisks \o <<DataDisk(res["c1"].disk, DataDiskURI(res["c1"].disk), i)>>

---------------------------------------------------------------------------
(* The list a detach call of the provider commits.                         *)

\* The positions of the list the call of ret read whose entry the call
\* matches: by name or URI, or by LUN.
MatchedBy(call) ==
    {i \in 1..Len(call.before) :
        IF call.fn \in {"DetachDiskByName", "Cloud.DetachDiskByName"}
        THEN \/ call.before[i].name = call.disk
             \/ call.before[i].uri = DataDiskURI(call.disk)
        ELSE call.before[i].lun = <<call.lun>>}

\* The list without the entry at position k.
Without(disks, k) ==
    [i \in 1..(Len(disks) - 1) |-> IF i < k THEN disks[i] ELSE disks[i + 1]]

\* C37: DetachDiskByName and DetachDiskByLun remove at most one entry per
\* call, the first that matches: the list committed is the list read without
\* that entry, every other entry unchanged and in its place, later matches
\* included.
C37_DetachRemovesFirstMatch ==
    (ret.fn \in {"DetachDiskByName", "DetachDiskByLun"} /\ ret.err = Nil)
    => IF MatchedBy(ret) = {}
       THEN vmDisks = ret.before
       ELSE vmDisks = Without(ret.before, Min(MatchedBy(ret)))

\* A DetachDiskByLun on a list with two entries of the LUN removed the first
\* one and kept the second.
C37_Witness ==
    /\ ret.fn = "DetachDiskByLun"
    /\ ret.err = Nil
    /\ Cardinality(MatchedBy(ret)) = 2
    /\ Len(vmDisks) = Len(ret.before) - 1
    /\ \E i \in 1..Len(vmDisks) : vmDisks[i].lun = <<ret.lun>>

\* C38: GetNextDiskLun indexes its 64-slot map within bounds for every
\* data-disk list: no list, one with a LUN below 0 or above 63 included,
\* makes the call panic.
C38_GetNextDiskLunInBounds ==
    ret.fn = "GetNextDiskLun" => ret.err # IndexPanic

\* C40: a filter-based detach commits exactly the entries of the list read
\* that do not match the detached disk, in their order: no more entries than
\* it read and no entry that was not in the list read.
C40_FilterDetachCommitsRest ==
    (ret.fn \in FilterVariants \cup {"Cloud.DetachDiskByName"} /\ ret.err = Nil)
    => /\ Len(vmDisks) <= Len(ret.before)
       /\ \A i \in 1..Len(vmDisks) :
             \E j \in 1..Len(ret.before) : vmDisks[i] = ret.before[j]
       /\ \E keep \in {{j \in 1..Len(ret.before) : j \notin MatchedBy(ret)}} :
             /\ Len(vmDisks) = Cardinality(keep)
             /\ \A i \in 1..Len(vmDisks) :
                   \E j \in keep :
                      /\ vmDisks[i] = ret.before[j]
                      /\ Cardinality({k \in keep : k < j}) = i - 1

---------------------------------------------------------------------------
(* Keyed locks are released.                                               *)

\* The keys context c holds.
HeldBy(c) == {k \in DOMAIN holders : c \in holders[k]}

\* A call waits in LockKey.
LockPending ==
    {"SetUpLockKey", "TearDownLockKey", "CinderAttachLockKey",
     "CinderDetachLockKey", "EbsAttachLockKey"}

\* The key the call of context c locks, by the registry of its plugin.
LockOf(c) ==
    << IF op[c].kind \in {"SetUpAt", "TearDownAt"} THEN "volumeLocks"
       ELSE IF op[c].kind = "EbsAttach" THEN "ebsAttachDetachMutex"
       ELSE "attachDetachMutex",
       op[c].disk >>

\* C39: no operation leaks a keyed lock or deadlocks on one.  A call holds
\* at most one key at a time and none once it has returned, so when no call
\* is in progress no key is held; and every call that waits in LockKey gets
\* past it.
C39_LocksReleased ==
    /\ [](\A c \in Contexts :
             /\ Cardinality(HeldBy(c)) <= 1
             /\ pc[c] = "idle" => HeldBy(c) = {})
    /\ \A c \in Contexts :
          (pc[c] \in LockPending) ~> (pc[c] \notin LockPending)

\* A call waits in LockKey for the key another call holds.
C39_Witness ==
    \E c, w \in Contexts :
        /\ c # w
        /\ pc[w] \in LockPending
        /\ holders[LockOf(w)] = {c}
        /\ pc[c] \notin LockPending \cup {"idle"}

====
